---- MODULE Spec2Model ----
(***************************************************************************)
(* EduFeedbackHub: the comment / rating store behind the JSON views of     *)
(* backend/edufeedbackhub (models.py, views/views_modify.py,               *)
(* views/views_query.py).                                                  *)
(*                                                                         *)
(* A request is received (it is then in flight in `request`) and handled   *)
(* by its view in one atomic step that writes the store and `response`.    *)
(* SpecRace splits rate_api at its database statements to interleave two   *)
(* requests.                                                               *)
(*                                                                         *)
(* Conventions: Python None / a missing JSON key / a falsy id is 0 for     *)
(* ids and user references; strings are sequences of one-character         *)
(* strings so that strip() and lower() are computed.                       *)
(***************************************************************************)
EXTENDS Integers, Sequences, FiniteSets, TLC

VARIABLES users, profiles, tokens, entities, ratings, comments, nextCommentId,
          now, request, response, deleted, procs,
          notifications, follows, nextFollowId, catalog, visits, nextVisitId

vars == <<users, profiles, tokens, entities, ratings, comments, nextCommentId,
          now, request, response, deleted, procs,
          notifications, follows, nextFollowId, catalog, visits, nextVisitId>>

\* ------------------------------------------------------------------ bounds
\* timestamps handed out by the clock: no request is received at the horizon
MaxClock == 2
\* comments ever created (ids are never reused)
MaxComments == 3
\* target-id fields a comment request may set at once
MaxTargetFields == 2
\* rate_api requests in flight at once in SpecRace
NumProcs == 2
\* ratings written or rewritten in SpecScore
MaxRatings == 4
\* Follow rows ever created (ids are never reused)
MaxFollows == 3

\* longest sample of scores given to compute_quartiles
MaxSample == 4
\* rows of the six entity tables together in SpecCatalog
MaxEntities == 9
\* minutes the clock runs in SpecVisit
MaxMinutes == 6
\* VisitHistory rows ever created
MaxVisits == 2

\* ------------------------------------------------------------- vocabulary
None == 0

\* models.py: the six models a Comment or a Rating can be attached to, in
\* the order add_comment_api scans them
TargetOrder == <<"university", "college", "school", "module", "lecturer", "teaching">>

TargetTypes == {TargetOrder[i] : i \in 1..Len(TargetOrder)}

Roles == {"student", "lecturer"}

ValidScores == {1, 2, 3, 4, 5}

\* ---------------------------------------------------------------- strings
RECURSIVE LStrip(_)
LStrip(s) == IF s # <<>> /\ Head(s) = " " THEN LStrip(Tail(s)) ELSE s

RECURSIVE RStrip(_)
RStrip(s) == IF s # <<>> /\ s[Len(s)] = " " THEN RStrip(SubSeq(s, 1, Len(s) - 1)) ELSE s

\* mutant: nothing is stripped
StripNothing(s) == s

\* str.strip()
Strip(s) == RStrip(LStrip(s))

LowerChar(c) == CASE c = "S" -> "s"
                  [] c = "L" -> "l"
                  [] c = "X" -> "x"
                  [] OTHER -> c

\* str.lower()
Lower(s) == [i \in 1..Len(s) |-> LowerChar(s[i])]

\* 'student' and 'lecturer' are abbreviated to one letter in the model
RoleOfText(s) == CASE s = <<"s">> -> "student"
                   [] s = <<"l">> -> "lecturer"
                   [] OTHER -> "invalid"

\* ------------------------------------------------------------ auth header
NoHeader == [scheme |-> "none", key |-> 0]

\* the token key of user u is modelled as u: 1..3 are the users of Init, 4 is
\* the user register_api can add, key 9 belongs to nobody
Headers == {NoHeader} \cup [scheme : {"Token"}, key : {1, 2, 3, 4, 9}]
              \cup [scheme : {"Bearer"}, key : {2}]

\* the block repeated in every authenticated view:
\* header startswith 'Token ' and Token.objects.get(key=...) else None
ResolveUser(h) == IF h.scheme = "Token" /\ h.key \in tokens THEN h.key ELSE None

HasProfile(u) == u \in DOMAIN profiles

\* mutant: the role is not compared, any user with a profile passes
IsStudentAnyRole(u) == HasProfile(u)

\* hasattr(user, 'profile') and user.profile.role == 'student'
IsStudent(u) == HasProfile(u) /\ profiles[u] = "student"

\* ---------------------------------------------------------------- scores
\* A JSON score: absent/null, a number (in tenths: 25 is 2.5, 50 is 5 or 5.0)
\* or a string.
NullScore == [kind |-> "null", tenths |-> 0, text |-> ""]

NumScore(t) == [kind |-> "num", tenths |-> t, text |-> ""]

TextScore(s) == [kind |-> "str", tenths |-> 0, text |-> s]

ScoreInputs == {NullScore} \cup {NumScore(t) : t \in {0, 10, 25, 50, 60}}
                  \cup {TextScore(s) : s \in {"abc", "sNaN", "NaN", "5"}}

\* Decimal(str(score)): a finite decimal, a quiet or signaling NaN, or
\* InvalidOperation ("raise")
DecimalOf(sc) ==
    IF sc.kind = "num" THEN [kind |-> "finite", tenths |-> sc.tenths]
    ELSE CASE sc.text = "5" -> [kind |-> "finite", tenths |-> 50]
           [] sc.text = "NaN" -> [kind |-> "nan", tenths |-> 0]
           [] sc.text = "sNaN" -> [kind |-> "snan", tenths |-> 0]
           [] OTHER -> [kind |-> "raise", tenths |-> 0]

\* `score in [1, 2, 3, 4, 5]` on a Decimal: == with a signaling NaN raises
\* InvalidOperation, with a quiet NaN it is False
ScoreInList(d) ==
    CASE d.kind = "snan" -> "raise"
      [] d.kind = "finite" /\ d.tenths \in {10 * s : s \in ValidScores} -> "yes"
      [] OTHER -> "no"

\* IntegerField.get_prep_value: int(Decimal)
IntOfDecimal(d) == d.tenths \div 10

\* ------------------------------------------------------------- responses
Resp(op, status, error, body) == [op |-> op, status |-> status, error |-> error, body |-> body]

NoBody == [none |-> TRUE]

NoResponse == Resp("none", 0, "", NoBody)

NoRequest == [op |-> "none"]

\* an exception that no view catches: Django answers 500
Unhandled(op, exc) == Resp(op, 500, exc, NoBody)

\* ----------------------------------------------------------------- store
UserIds == 1..Len(users)

UsernameTaken(name) == \E u \in UserIds : users[u].username = name

RECURSIVE SumScores(_)
SumScores(rows) == IF rows = {} THEN 0
                   ELSE LET r == CHOOSE x \in rows : TRUE
                        IN r.score + SumScores(rows \ {r})

\* round(float(avg), 1) in tenths; Avg over no rows is None and `or 0` gives 0.
\* round() is half-to-even on the binary value, which is exact for the
\* quarters that are the only ties a sum of integers over n <= 4 rows gives.
AverageTenths(rows) ==
    IF rows = {} THEN 0
    ELSE LET n == Cardinality(rows)
             s == 10 * SumScores(rows)
             q == s \div n
             r == s % n
         IN IF 2 * r < n THEN q
            ELSE IF 2 * r > n THEN q + 1
            ELSE IF q % 2 = 0 THEN q ELSE q + 1

\* ------------------------------------------------------------------ Init
\* The store after deployment: University 1 and Lecturer 1 (the two models
\* that need no parent row), the superuser `a` (no Profile, token made in
\* the admin), and the registered and logged-in student `b` and lecturer `c`.
\* a row of one of the six entity tables: `parent` is the foreign key to the
\* enclosing scope (region of a university, university of a college, college
\* of a school, school of a module, lecturer of a teaching); a teaching has
\* a module and a year and no name
EntityRow(id, name, parent, module, year) ==
    [id |-> id, name |-> name, parent |-> parent, module |-> module, year |-> year]

NoYear == <<>>

\* the Region table, which no view writes
Regions == {[id |-> 1, name |-> <<"S">>], [id |-> 2, name |-> <<"X">>]}

\* tables with rows 1..n[t] of table t, row i named "l" under parent 1
CatalogOf(n) ==
    [t \in TargetTypes |->
        {EntityRow(i, IF t = "teaching" THEN <<>> ELSE <<"l">>,
                   IF t = "lecturer" THEN None ELSE 1,
                   IF t = "teaching" THEN 1 ELSE None,
                   IF t = "teaching" THEN <<"9">> ELSE NoYear) : i \in 1..n[t]}]

\* n[t] rows in entity table t; `entities` holds the primary keys
InitEntities(n) ==
    /\ entities = [t \in TargetTypes |-> 1..n[t]]
    /\ catalog = CatalogOf(n)

InitRows ==
    /\ ratings = {}
    /\ comments = {}
    /\ nextCommentId = 1
    /\ now = 0
    /\ request = NoRequest
    /\ response = NoResponse
    /\ deleted = {}
    /\ notifications = {}
    /\ follows = {}
    /\ nextFollowId = 1
    /\ visits = {}
    /\ nextVisitId = 1

InitTables ==
    /\ InitEntities([t \in TargetTypes |-> IF t \in {"university", "lecturer"} THEN 1 ELSE 0])
    /\ InitRows

InitStore ==
    /\ users = << [username |-> <<"a">>, password |-> <<"p">>],
                  [username |-> <<"b">>, password |-> <<"p">>],
                  [username |-> <<"c">>, password |-> <<"p">>] >>
    /\ profiles = (2 :> "student") @@ (3 :> "lecturer")
    /\ tokens = {1, 2, 3}
    /\ InitTables

Init == InitStore /\ procs = <<>>

\* --------------------------------------------------------------- requests
RegisterRequests ==
    [op : {"register"}, json : {TRUE},
     username : {<<"b">>, <<" ", "d">>, <<>>},
     password : {<<"p">>, <<" ">>},
     role : {<<"s">>, <<"L", " ">>, <<"x">>}]
    \cup {[op |-> "register", json |-> FALSE, username |-> <<>>, password |-> <<>>, role |-> <<>>]}

LoginRequests ==
    [op : {"login"}, json : {TRUE},
     username : {<<"a">>, <<"d">>, <<"z">>},
     password : {<<"p">>, <<"q">>}]
    \cup {[op |-> "login", json |-> FALSE, username |-> <<>>, password |-> <<>>]}

RateRequests ==
    [op : {"rate"}, json : {TRUE}, header : Headers,
     target_type : {"university", "lecturer", "region", ""},
     target_id : {None, 1, 2},
     score : ScoreInputs]
    \cup {[op |-> "rate", json |-> FALSE, header |-> NoHeader, target_type |-> "",
           target_id |-> None, score |-> NullScore]}

\* a request arrives and is in flight until its view has answered
Receive(r) ==
    /\ request = NoRequest
    /\ request' = r
    /\ response' = NoResponse
    /\ deleted' = {}
    /\ UNCHANGED <<users, profiles, tokens, entities, catalog, visits, nextVisitId,
                   ratings, comments, nextCommentId, now, procs,
                   notifications, follows, nextFollowId>>

\* ----------------------------------------------------------- register_api
RegisterResultNoConflict(r) ==
    LET username == Strip(r.username)
        password == Strip(r.password)
        role == RoleOfText(Lower(Strip(r.role)))
    IN IF ~r.json THEN [resp |-> Resp("register", 400, "Invalid JSON", NoBody), create |-> FALSE]
       ELSE IF role \notin Roles
            THEN [resp |-> Resp("register", 400, "Invalid role", NoBody), create |-> FALSE]
       ELSE IF username = <<>> \/ password = <<>>
            THEN [resp |-> Resp("register", 400, "username and password are required", NoBody), create |-> FALSE]
       ELSE [resp |-> Resp("register", 200, "", [user_id |-> Len(users) + 1]), create |-> TRUE]

RegisterResult(r) ==
    LET username == Strip(r.username)
        password == Strip(r.password)
        role == RoleOfText(Lower(Strip(r.role)))
    IN IF ~r.json THEN [resp |-> Resp("register", 400, "Invalid JSON", NoBody), create |-> FALSE]
       ELSE IF role \notin Roles
            THEN [resp |-> Resp("register", 400, "Invalid role", NoBody), create |-> FALSE]
       ELSE IF username = <<>> \/ password = <<>>
            THEN [resp |-> Resp("register", 400, "username and password are required", NoBody), create |-> FALSE]
       ELSE IF UsernameTaken(username)
            THEN [resp |-> Resp("register", 409, "Username already exists", NoBody), create |-> FALSE]
       ELSE [resp |-> Resp("register", 200, "", [user_id |-> Len(users) + 1]), create |-> TRUE]

register_api ==
    /\ request.op = "register"
    /\ LET res == RegisterResult(request)
       IN /\ response' = res.resp
          /\ IF res.create
             THEN /\ users' = Append(users, [username |-> Strip(request.username),
                                              password |-> Strip(request.password)])
                  /\ profiles' = profiles @@
                        ((Len(users) + 1) :> RoleOfText(Lower(Strip(request.role))))
             ELSE UNCHANGED <<users, profiles>>
    /\ request' = NoRequest
    /\ UNCHANGED <<tokens, entities, catalog, visits, nextVisitId,
                   ratings, comments, nextCommentId, now, deleted, procs,
                   notifications, follows, nextFollowId>>

\* -------------------------------------------------------------- login_api
UserByName(name) == CHOOSE u \in UserIds : users[u].username = name

LoginResult(r) ==
    LET username == Strip(r.username)
        password == Strip(r.password)
    IN IF ~r.json THEN [resp |-> Resp("login", 400, "Invalid JSON", NoBody), user |-> None]
       ELSE IF ~UsernameTaken(username)
            THEN [resp |-> Resp("login", 401, "Account does not exist", NoBody), user |-> None]
       ELSE LET u == UserByName(username)
            IN IF users[u].password # password
               THEN [resp |-> Resp("login", 401, "Password is incorrect", NoBody), user |-> None]
               ELSE IF ~HasProfile(u)
                    THEN [resp |-> Resp("login", 500, "User profile not found", NoBody), user |-> None]
               ELSE [resp |-> Resp("login", 200, "", [token |-> u, role |-> profiles[u], user_id |-> u]),
                     user |-> u]

login_api ==
    /\ request.op = "login"
    /\ LET res == LoginResult(request)
       IN /\ response' = res.resp
          /\ tokens' = IF res.user # None THEN tokens \cup {res.user} ELSE tokens
    /\ request' = NoRequest
    /\ UNCHANGED <<users, profiles, entities, catalog, visits, nextVisitId,
                   ratings, comments, nextCommentId, now, deleted, procs,
                   notifications, follows, nextFollowId>>

\* --------------------------------------------------------------- rate_api
\* mutant: the target row is not looked up before get_or_create
RateCheckNoLookup(r) ==
    LET d == DecimalOf(r.score)
        user == ResolveUser(r.header)
    IN IF ~r.json THEN Resp("rate", 400, "Invalid JSON", NoBody)
       ELSE IF r.target_type = "" \/ r.target_id = None \/ r.score.kind = "null"
            THEN Resp("rate", 400, "target_type, target_id, and score are required", NoBody)
       ELSE IF d.kind = "raise" THEN Resp("rate", 400, "Invalid score", NoBody)
       ELSE IF ScoreInList(d) = "raise" THEN Unhandled("rate", "InvalidOperation")
       ELSE IF ScoreInList(d) = "no"
            THEN Resp("rate", 400, "Score must be an integer between 1 and 5", NoBody)
       ELSE IF user = None THEN Resp("rate", 401, "Authentication required", NoBody)
       ELSE IF ~IsStudent(user) THEN Resp("rate", 403, "Only students can rate", NoBody)
       ELSE IF r.target_type \notin TargetTypes THEN Resp("rate", 400, "Invalid target_type", NoBody)
       ELSE Resp("rate", 200, "ok", NoBody)

\* the checks of rate_api before it touches Rating, in the order of the code;
\* "ok" when the request reaches get_or_create
RateCheck(r) ==
    LET d == DecimalOf(r.score)
        user == ResolveUser(r.header)
    IN IF ~r.json THEN Resp("rate", 400, "Invalid JSON", NoBody)
       ELSE IF r.target_type = "" \/ r.target_id = None \/ r.score.kind = "null"
            THEN Resp("rate", 400, "target_type, target_id, and score are required", NoBody)
       ELSE IF d.kind = "raise" THEN Resp("rate", 400, "Invalid score", NoBody)
       ELSE IF ScoreInList(d) = "raise" THEN Unhandled("rate", "InvalidOperation")
       ELSE IF ScoreInList(d) = "no"
            THEN Resp("rate", 400, "Score must be an integer between 1 and 5", NoBody)
       ELSE IF user = None THEN Resp("rate", 401, "Authentication required", NoBody)
       ELSE IF ~IsStudent(user) THEN Resp("rate", 403, "Only students can rate", NoBody)
       ELSE IF r.target_type \notin TargetTypes THEN Resp("rate", 400, "Invalid target_type", NoBody)
       ELSE IF r.target_id \notin entities[r.target_type]
            THEN Resp("rate", 404, "Target object not found", NoBody)
       ELSE Resp("rate", 200, "ok", NoBody)

\* Rating.objects.create under unique_together(user, content_type, object_id)
RatingRow(id, u, ct, oid, score, t) ==
    [id |-> id, user |-> u, content_type |-> ct, object_id |-> oid, score |-> score,
     created_at |-> t, updated_at |-> t]

\* rating.score = score; rating.save()  (auto_now refreshes updated_at)
SaveScore(rows, row, score, t) ==
    (rows \ {row}) \cup {[row EXCEPT !.score = score, !.updated_at = t]}

\* mutant: a plain create() in place of get_or_create()
UpsertRatingInsertOnly(rows, u, ct, oid, score, t) ==
    rows \cup {RatingRow(Cardinality(rows) + 1, u, ct, oid, score, t)}

\* get_or_create(user, content_type, object_id, defaults={'score': score})
\* followed by the update of a row that was not created
UpsertRating(rows, u, ct, oid, score, t) ==
    LET found == {x \in rows : x.user = u /\ x.content_type = ct /\ x.object_id = oid}
    IN IF found = {}
       THEN rows \cup {RatingRow(Cardinality(rows) + 1, u, ct, oid, score, t)}
       ELSE SaveScore(rows, CHOOSE x \in found : TRUE, score, t)

\* mutant: the rows are filtered by object id only, whatever the content type
RateBodyAnyType(rows, ct, oid, d) ==
    [average |-> AverageTenths({x \in rows : x.object_id = oid}),
     count |-> Cardinality({x \in rows : x.object_id = oid}),
     score |-> d.tenths]

\* all_ratings.aggregate(Avg('score')), count() and the JSON answer
RateBody(rows, ct, oid, d) ==
    [average |-> AverageTenths({x \in rows : x.content_type = ct /\ x.object_id = oid}),
     count |-> Cardinality({x \in rows : x.content_type = ct /\ x.object_id = oid}),
     score |-> d.tenths]

rate_api ==
    /\ request.op = "rate"
    /\ LET chk == RateCheck(request)
       IN IF chk.error = "ok"
          THEN LET d == DecimalOf(request.score)
                   rows == UpsertRating(ratings, ResolveUser(request.header),
                              request.target_type, request.target_id, IntOfDecimal(d), now + 1)
               IN /\ ratings' = rows
                  /\ now' = now + 1
                  /\ response' = Resp("rate", 200, "", RateBody(rows, request.target_type,
                                                        request.target_id, d))
          ELSE /\ response' = chk
               /\ UNCHANGED <<ratings, now>>
    /\ request' = NoRequest
    /\ UNCHANGED <<users, profiles, tokens, entities, catalog, visits, nextVisitId,
                   comments, nextCommentId, deleted, procs,
                   notifications, follows, nextFollowId>>

\* -------------------------------------------------------- add_comment_api
\* mutant: the university reference is filled whatever the resolved field
CommentRowAlwaysUniversity(id, field, target, u, content, t, parent, anon) ==
    [id |-> id,
     university |-> target,
     college |-> IF field = "college" THEN target ELSE None,
     school |-> IF field = "school" THEN target ELSE None,
     module |-> IF field = "module" THEN target ELSE None,
     lecturer |-> IF field = "lecturer" THEN target ELSE None,
     teaching |-> IF field = "teaching" THEN target ELSE None,
     user |-> u, content |-> content, created_at |-> t, parent |-> parent,
     is_anonymous |-> anon]

\* Comment row: one nullable foreign key per target model (models.py)
CommentRow(id, field, target, u, content, t, parent, anon) ==
    [id |-> id,
     university |-> IF field = "university" THEN target ELSE None,
     college |-> IF field = "college" THEN target ELSE None,
     school |-> IF field = "school" THEN target ELSE None,
     module |-> IF field = "module" THEN target ELSE None,
     lecturer |-> IF field = "lecturer" THEN target ELSE None,
     teaching |-> IF field = "teaching" THEN target ELSE None,
     user |-> u, content |-> content, created_at |-> t, parent |-> parent,
     is_anonymous |-> anon]

CommentIds == {c.id : c \in comments}

CommentById(id) == CHOOSE c \in comments : c.id = id

\* the scan of field_model_map: position of the first non-empty target
\* field, 0 when no field is set
RECURSIVE FirstSetField(_, _)
FirstSetField(ids, i) ==
    IF i > Len(TargetOrder) THEN 0
    ELSE IF ids[TargetOrder[i]] # None THEN i
    ELSE FirstSetField(ids, i + 1)

\* mutant: the id of the target field is not looked up
AddCommentResultNoLookup(r) ==
    LET content == Strip(r.content)
        i == FirstSetField(r.target_ids, 1)
        field == TargetOrder[i]
        user == ResolveUser(r.header)
    IN IF ~r.json
       THEN [resp |-> Resp("add_comment", 400, "Invalid JSON", NoBody), create |-> FALSE]
       ELSE IF content = <<>>
            THEN [resp |-> Resp("add_comment", 400, "Content is required", NoBody), create |-> FALSE]
       ELSE IF r.parent_id # None /\ r.parent_id \notin CommentIds
            THEN [resp |-> Resp("add_comment", 404, "No Comment matches the given query", NoBody),
                  create |-> FALSE]
       ELSE IF i = 0
            THEN [resp |-> Resp("add_comment", 400, "No valid target object specified", NoBody),
                  create |-> FALSE]
       ELSE [resp |-> Resp("add_comment", 200, "",
                           [id |-> nextCommentId, content |-> content,
                            created_at |-> now + 1, target |-> field]),
             create |-> TRUE,
             row |-> CommentRow(nextCommentId, field, r.target_ids[field], user, content,
                                now + 1, r.parent_id, r.is_anonymous)]

\* the checks of add_comment_api in the order of the code, and the row it
\* stores when they pass
AddCommentResult(r) ==
    LET content == Strip(r.content)
        i == FirstSetField(r.target_ids, 1)
        field == TargetOrder[i]
        user == ResolveUser(r.header)
    IN IF ~r.json
       THEN [resp |-> Resp("add_comment", 400, "Invalid JSON", NoBody), create |-> FALSE]
       ELSE IF content = <<>>
            THEN [resp |-> Resp("add_comment", 400, "Content is required", NoBody), create |-> FALSE]
       ELSE IF r.parent_id # None /\ r.parent_id \notin CommentIds
            THEN [resp |-> Resp("add_comment", 404, "No Comment matches the given query", NoBody),
                  create |-> FALSE]
       ELSE IF i = 0
            THEN [resp |-> Resp("add_comment", 400, "No valid target object specified", NoBody),
                  create |-> FALSE]
       ELSE IF r.target_ids[field] \notin entities[field]
            THEN [resp |-> Resp("add_comment", 404, "No target matches the given query", NoBody),
                  create |-> FALSE]
       ELSE [resp |-> Resp("add_comment", 200, "",
                           [id |-> nextCommentId, content |-> content,
                            created_at |-> now + 1, target |-> field]),
             create |-> TRUE,
             row |-> CommentRow(nextCommentId, field, r.target_ids[field], user, content,
                                now + 1, r.parent_id, r.is_anonymous)]

\* the handler's writes to Comment and its answer
add_comment_store ==
    /\ request.op = "add_comment"
    /\ LET res == AddCommentResult(request)
       IN /\ response' = res.resp
          /\ IF res.create
             THEN /\ comments' = comments \cup {res.row}
                  /\ nextCommentId' = nextCommentId + 1
                  /\ now' = now + 1
             ELSE UNCHANGED <<comments, nextCommentId, now>>
    /\ request' = NoRequest
    /\ UNCHANGED <<users, profiles, tokens, entities, catalog, visits, nextVisitId,
                   ratings, deleted, procs,
                   follows, nextFollowId>>

\* add_comment_api of views_modify.py writes no Notification
add_comment_api == add_comment_store /\ UNCHANGED notifications

\* ------------------------------------------------------------ notifications
\* Notification{recipient, comment, reply, is_read, created_at}: the model
\* class and the code that creates the rows lie outside views_modify.py and
\* views_query.py; notifications_api reads these fields
NotificationRow(id, recipient, comment, reply, t) ==
    [id |-> id, recipient |-> recipient, comment |-> comment, reply |-> reply,
     is_read |-> FALSE, created_at |-> t]

\* mutant: the author of the original comment is notified of their own reply too
NotifyOnReplyAlways(rows, original, reply) ==
    IF original.user # None
    THEN rows \cup {NotificationRow(Cardinality(rows) + 1, original.user, original.id,
                                    reply.id, reply.created_at)}
    ELSE rows

\* NotifyOnReply(original_comment, reply_comment): a notification for the
\* author of the original comment, skipped when the replier is that author
NotifyOnReply(rows, original, reply) ==
    IF original.user # None /\ original.user # reply.user
    THEN rows \cup {NotificationRow(Cardinality(rows) + 1, original.user, original.id,
                                    reply.id, reply.created_at)}
    ELSE rows

\* add_comment_api followed by NotifyOnReply when the stored comment is a reply
add_comment_notify ==
    /\ add_comment_store
    /\ LET res == AddCommentResult(request)
       IN notifications' =
             IF res.create /\ res.row.parent # None
             THEN NotifyOnReply(notifications, CommentById(res.row.parent), res.row)
             ELSE notifications

\* ----------------------------------------------------- delete_comment_api
\* mutant: the parent reference does not cascade, only the comment goes
SubtreeNoCascade(cs, ids) == ids

\* Comment.parent is on_delete=CASCADE: delete() collects the replies of the
\* comment, their replies, and so on; `deleted` holds the rows it removed
\* (what comment.delete() returns to the view)
RECURSIVE Subtree(_, _)
Subtree(cs, ids) ==
    LET more == {c.id : c \in {x \in cs : x.parent \in ids}} \ ids
    IN IF more = {} THEN ids ELSE Subtree(cs, ids \cup more)

\* mutant: only the named row is removed, its replies stay
DeleteCommentOnlyRow(cs, id) == {c \in cs : c.id # id}

DeleteComment(cs, id) == {c \in cs : c.id \notin Subtree(cs, {id})}

\* mutant: the permissive delete, without the author check
DeleteCommentResultAnyone(r) ==
    IF r.comment_id \notin {c.id : c \in comments}
    THEN [resp |-> Resp("delete_comment", 404, "No Comment matches the given query", NoBody),
          delete |-> FALSE]
    ELSE [resp |-> Resp("delete_comment", 200, "", [message |-> "Comment deleted successfully"]),
          delete |-> TRUE]

DeleteCommentResult(r) ==
    LET user == ResolveUser(r.header)
    IN IF r.comment_id \notin CommentIds
       THEN [resp |-> Resp("delete_comment", 404, "No Comment matches the given query", NoBody),
             delete |-> FALSE]
       ELSE IF user = None \/ CommentById(r.comment_id).user # user
            THEN [resp |-> Resp("delete_comment", 403,
                                "You do not have permission to delete this comment.", NoBody),
                  delete |-> FALSE]
       ELSE [resp |-> Resp("delete_comment", 200, "", [message |-> "Comment deleted successfully"]),
             delete |-> TRUE]

delete_comment_api ==
    /\ request.op = "delete_comment"
    /\ LET res == DeleteCommentResult(request)
       IN /\ response' = res.resp
          /\ comments' = IF res.delete THEN DeleteComment(comments, request.comment_id)
                         ELSE comments
          /\ deleted' = IF res.delete THEN Subtree(comments, {request.comment_id}) ELSE {}
    /\ request' = NoRequest
    /\ UNCHANGED <<users, profiles, tokens, entities, catalog, visits, nextVisitId,
                   ratings, nextCommentId, now, procs,
                   notifications, follows, nextFollowId>>

\* --------------------------------------------------- university_detail_api
\* order_by('created_at') of a set of comments, as a sequence
RECURSIVE OrderByCreatedAt(_)
OrderByCreatedAt(cs) ==
    IF cs = {} THEN <<>>
    ELSE LET first == CHOOSE c \in cs : \A d \in cs :
                          c.created_at < d.created_at
                          \/ (c.created_at = d.created_at /\ c.id <= d.id)
         IN <<first>> \o OrderByCreatedAt(cs \ {first})

Reverse(s) == [i \in 1..Len(s) |-> s[Len(s) + 1 - i]]

NoName == <<>>

NoRole == "None"

\* mutant: username and role are reported without looking at is_anonymous
RECURSIVE serialize_comment_signed(_, _)
serialize_comment_signed(cs, c) ==
    LET replies == OrderByCreatedAt({x \in cs : x.parent = c.id})
    IN [id |-> c.id,
        content |-> c.content,
        created_at |-> c.created_at,
        is_anonymous |-> c.is_anonymous,
        user |-> c.user,
        username |-> IF c.user # None THEN users[c.user].username ELSE NoName,
        role |-> IF c.user # None /\ HasProfile(c.user) THEN profiles[c.user] ELSE NoRole,
        replies |-> [i \in 1..Len(replies) |-> serialize_comment_signed(cs, replies[i])]]

\* serialize_comment of the detail views (the five copies are identical):
\* cs is the Comment table, c the comment
RECURSIVE serialize_comment(_, _)
serialize_comment(cs, c) ==
    LET replies == OrderByCreatedAt({x \in cs : x.parent = c.id})
    IN [id |-> c.id,
        content |-> c.content,
        created_at |-> c.created_at,
        is_anonymous |-> c.is_anonymous,
        user |-> c.user,
        username |-> IF c.user # None /\ ~c.is_anonymous THEN users[c.user].username ELSE NoName,
        role |-> IF c.user # None /\ HasProfile(c.user) /\ ~c.is_anonymous
                 THEN profiles[c.user] ELSE NoRole,
        replies |-> [i \in 1..Len(replies) |-> serialize_comment(cs, replies[i])]]

\* mutant: the top-level comments are ordered by created_at, oldest first
UniversityThreadsOldestFirst(cs, id) ==
    LET top == OrderByCreatedAt({c \in cs : c.university = id /\ c.parent = None})
    IN [i \in 1..Len(top) |-> serialize_comment(cs, top[i])]

\* university.comments.filter(parent=None).order_by('-created_at'), serialized
UniversityThreads(cs, id) ==
    LET top == Reverse(OrderByCreatedAt({c \in cs : c.university = id /\ c.parent = None}))
    IN [i \in 1..Len(top) |-> serialize_comment(cs, top[i])]

university_detail_api ==
    /\ request.op = "university_detail"
    /\ response' =
          IF request.university_id \notin entities["university"]
          THEN Resp("university_detail", 404, "No University matches the given query", NoBody)
          ELSE LET rows == {x \in ratings : x.content_type = "university"
                                             /\ x.object_id = request.university_id}
               IN Resp("university_detail", 200, "",
                       [comments |-> UniversityThreads(comments, request.university_id),
                        rating |-> [average |-> AverageTenths(rows), count |-> Cardinality(rows)]])
    /\ request' = NoRequest
    /\ UNCHANGED <<users, profiles, tokens, entities, catalog, visits, nextVisitId,
                   ratings, comments, nextCommentId, now,
                   deleted, procs, notifications, follows, nextFollowId>>

\* ------------------------------------------------------ notifications_api
\* the authentication block of notifications_api, follow_api and their
\* siblings: an unknown token is answered at once, no token a line later
TokenAuth(op, h) ==
    IF h.scheme = "Token" /\ h.key \notin tokens THEN Resp(op, 401, "Invalid token.", NoBody)
    ELSE IF ResolveUser(h) = None THEN Resp(op, 401, "Authentication required.", NoBody)
    ELSE Resp(op, 200, "ok", NoBody)

\* one entry of the GET answer
serialize_notification(n) ==
    LET original == CommentById(n.comment)
        reply == CommentById(n.reply)
        i == FirstSetField(original, 1)
    IN [id |-> n.id, is_read |-> n.is_read, created_at |-> n.created_at,
        is_follow_notification |-> (n.comment = n.reply),
        original_comment |-> [id |-> original.id, content |-> original.content,
                              entity_type |-> TargetOrder[i], entity_id |-> original[TargetOrder[i]]],
        reply |-> [id |-> reply.id, content |-> reply.content,
                   user |-> IF reply.user # None /\ ~reply.is_anonymous THEN reply.user ELSE None,
                   created_at |-> reply.created_at]]

\* Notification.objects.filter(recipient=user).order_by('-created_at')
NotificationsOf(rows, user) ==
    LET mine == Reverse(OrderByCreatedAt({n \in rows : n.recipient = user}))
    IN [i \in 1..Len(mine) |-> serialize_notification(mine[i])]

\* mutant: the update is filtered by id only
MarkReadAnyRecipient(rows, ids, user) ==
    {IF n.id \in ids THEN [n EXCEPT !.is_read = TRUE] ELSE n : n \in rows}

\* filter(id__in=notification_ids, recipient=user).update(is_read=True)
MarkRead(rows, ids, user) ==
    {IF n.id \in ids /\ n.recipient = user THEN [n EXCEPT !.is_read = TRUE] ELSE n : n \in rows}

notifications_api ==
    /\ request.op = "notifications"
    /\ LET auth == TokenAuth("notifications", request.header)
           user == ResolveUser(request.header)
       IN IF auth.status # 200
          THEN response' = auth /\ UNCHANGED notifications
          ELSE IF request.method = "GET"
          THEN /\ response' = Resp("notifications", 200, "",
                     [notifications |-> NotificationsOf(notifications, user),
                      unread_count |-> Cardinality({n \in notifications :
                                                      n.recipient = user /\ ~n.is_read})])
               /\ UNCHANGED notifications
          ELSE IF ~request.json
          THEN response' = Resp("notifications", 400, "Invalid JSON.", NoBody)
               /\ UNCHANGED notifications
          ELSE /\ response' = Resp("notifications", 200, "", [success |-> TRUE])
               /\ notifications' = IF request.notification_ids # {}
                                   THEN MarkRead(notifications, request.notification_ids, user)
                                   ELSE notifications
    /\ request' = NoRequest
    /\ UNCHANGED <<users, profiles, tokens, entities, catalog, visits, nextVisitId,
                   ratings, comments, nextCommentId, now,
                   deleted, procs, follows, nextFollowId>>

unread_notifications_count_api ==
    /\ request.op = "unread_count"
    /\ LET auth == TokenAuth("unread_count", request.header)
           user == ResolveUser(request.header)
       IN response' =
             IF auth.status # 200 THEN auth
             ELSE Resp("unread_count", 200, "",
                       [unread_count |-> Cardinality({n \in notifications :
                                                        n.recipient = user /\ ~n.is_read})])
    /\ request' = NoRequest
    /\ UNCHANGED <<users, profiles, tokens, entities, catalog, visits, nextVisitId,
                   ratings, comments, nextCommentId, now,
                   deleted, procs, notifications, follows, nextFollowId>>

\* -------------------------------------------------------------- follow_api
\* int(entity_id) of a JSON number given in tenths: truncation toward zero
IntOfTenths(t) == IF t >= 0 THEN t \div 10 ELSE -((-t) \div 10)

FollowRow(id, user, entity_type, entity_id) ==
    [id |-> id, user |-> user, entity_type |-> entity_type, entity_id |-> entity_id]

FollowsOf(rows, user, entity_type, entity_id) ==
    {f \in rows : f.user = user /\ f.entity_type = entity_type /\ f.entity_id = entity_id}

\* mutant: a plain create() in place of get_or_create()
FollowEntityInsertOnly(rows, id, user, entity_type, entity_id) ==
    [action |-> "followed", status |-> 200,
     rows |-> rows \cup {FollowRow(id, user, entity_type, entity_id)}]

\* POST: Follow.objects.get_or_create(user, entity_type, entity_id)
FollowEntity(rows, id, user, entity_type, entity_id) ==
    IF FollowsOf(rows, user, entity_type, entity_id) = {}
    THEN [action |-> "followed", status |-> 200,
          rows |-> rows \cup {FollowRow(id, user, entity_type, entity_id)}]
    ELSE [action |-> "already_following", status |-> 200, rows |-> rows]

\* mutant: Follow.DoesNotExist is not caught and becomes a 404
UnfollowEntityStrict(rows, user, entity_type, entity_id) ==
    LET found == FollowsOf(rows, user, entity_type, entity_id)
    IN IF found # {}
       THEN [action |-> "unfollowed", status |-> 200, rows |-> rows \ found]
       ELSE [action |-> "not_found", status |-> 404, rows |-> rows]

\* DELETE: Follow.objects.get(...).delete(), Follow.DoesNotExist caught
UnfollowEntity(rows, user, entity_type, entity_id) ==
    LET found == FollowsOf(rows, user, entity_type, entity_id)
    IN IF found # {}
       THEN [action |-> "unfollowed", status |-> 200, rows |-> rows \ found]
       ELSE [action |-> "not_following", status |-> 200, rows |-> rows]

\* the checks of follow_api before it touches Follow; "ok" when they pass
FollowCheck(r) ==
    LET auth == TokenAuth("follow", r.header)
    IN IF auth.status # 200 THEN auth
       ELSE IF ~r.json THEN Resp("follow", 400, "Invalid JSON.", NoBody)
       ELSE IF r.entity_type = "" \/ r.entity_id = 0
            THEN Resp("follow", 400, "entity_type and entity_id are required.", NoBody)
       ELSE IF r.entity_type \notin TargetTypes
            THEN Resp("follow", 400, "Invalid entity_type.", NoBody)
       ELSE IF IntOfTenths(r.entity_id) <= 0
            THEN Resp("follow", 400, "entity_id must be a positive integer.", NoBody)
       ELSE Resp("follow", 200, "ok", NoBody)

follow_api ==
    /\ request.op = "follow"
    /\ LET chk == FollowCheck(request)
           user == ResolveUser(request.header)
           eid == IntOfTenths(request.entity_id)
       IN IF chk.error # "ok"
          THEN response' = chk /\ UNCHANGED <<follows, nextFollowId>>
          ELSE LET res == IF request.method = "POST"
                          THEN FollowEntity(follows, nextFollowId, user, request.entity_type, eid)
                          ELSE UnfollowEntity(follows, user, request.entity_type, eid)
               IN /\ response' = Resp("follow", res.status, "",
                                      [success |-> res.status = 200, action |-> res.action])
                  /\ follows' = res.rows
                  /\ nextFollowId' = IF res.action = "followed" THEN nextFollowId + 1
                                     ELSE nextFollowId
    /\ request' = NoRequest
    /\ UNCHANGED <<users, profiles, tokens, entities, catalog, visits, nextVisitId,
                   ratings, comments, nextCommentId, now,
                   deleted, procs, notifications>>

\* ---------------------------------------------------- get_user_rating_api
\* mutant: the row is looked up by target only, whoever rated
UserRatingResultAnyUser(r) ==
    LET user == ResolveUser(r.header)
        found == {x \in ratings : x.content_type = r.target_type /\ x.object_id = r.target_id}
    IN IF r.target_type = "" \/ r.target_id = None
       THEN Resp("user_rating", 400, "target_type and target_id are required", NoBody)
       ELSE IF user = None THEN Resp("user_rating", 401, "Authentication required", NoBody)
       ELSE IF ~IsStudent(user) THEN Resp("user_rating", 200, "", [score |-> 0])
       ELSE IF r.target_type \notin TargetTypes
            THEN Resp("user_rating", 400, "Invalid target_type", NoBody)
       ELSE IF found = {} THEN Resp("user_rating", 200, "", [score |-> 0])
       ELSE Resp("user_rating", 200, "", [score |-> 10 * (CHOOSE x \in found : TRUE).score])

\* the score is a float in the answer: tenths, as in rate_api
UserRatingResult(r) ==
    LET user == ResolveUser(r.header)
        found == {x \in ratings : x.user = user /\ x.content_type = r.target_type
                                   /\ x.object_id = r.target_id}
    IN IF r.target_type = "" \/ r.target_id = None
       THEN Resp("user_rating", 400, "target_type and target_id are required", NoBody)
       ELSE IF user = None THEN Resp("user_rating", 401, "Authentication required", NoBody)
       ELSE IF ~IsStudent(user) THEN Resp("user_rating", 200, "", [score |-> 0])
       ELSE IF r.target_type \notin TargetTypes
            THEN Resp("user_rating", 400, "Invalid target_type", NoBody)
       ELSE IF found = {} THEN Resp("user_rating", 200, "", [score |-> 0])
       ELSE Resp("user_rating", 200, "", [score |-> 10 * (CHOOSE x \in found : TRUE).score])

get_user_rating_api ==
    /\ request.op = "user_rating"
    /\ response' = UserRatingResult(request)
    /\ request' = NoRequest
    /\ UNCHANGED <<users, profiles, tokens, entities, catalog, visits, nextVisitId,
                   ratings, comments, nextCommentId, now,
                   deleted, procs, notifications, follows, nextFollowId>>

\* ------------------------------------------- rate_api, statement by statement
\* Two or more rate_api requests in flight at once (procs): each runs the
\* checks, then the statements of get_or_create and of the update one at a
\* time; the database executes each statement atomically.
IdleProc == [pc |-> "idle", req |-> NoRequest, row |-> 0, created |-> FALSE,
             missed |-> FALSE, resp |-> NoResponse]

KeyOf(r) == <<ResolveUser(r.header), r.target_type, r.target_id>>

RowsOfKey(rows, k) == {x \in rows : x.user = k[1] /\ x.content_type = k[2] /\ x.object_id = k[3]}

\* mutant: no unique constraint, every INSERT is accepted
UniqueTogetherDropped(rows, k) == TRUE

\* Rating.Meta.unique_together: the INSERT of a row for key k is accepted
\* only when no row has that (user, content_type, object_id)
UniqueTogether(rows, k) == RowsOfKey(rows, k) = {}

RaceUnchanged == UNCHANGED <<users, profiles, tokens, entities, catalog, visits, nextVisitId,
                             comments, nextCommentId,
                             request, response, deleted,
                             notifications, follows, nextFollowId>>

\* the request arrives and passes or fails the checks before get_or_create
rate_begin(p, r) ==
    /\ procs[p].pc = "idle"
    /\ LET chk == RateCheck(r)
       IN procs' = [procs EXCEPT ![p] =
                      IF chk.error = "ok"
                      THEN [IdleProc EXCEPT !.pc = "get", !.req = r]
                      ELSE [IdleProc EXCEPT !.pc = "done", !.req = r, !.resp = chk]]
    /\ UNCHANGED <<ratings, now>>
    /\ RaceUnchanged

\* get_or_create: self.get(**kwargs)
rate_get(p) ==
    /\ procs[p].pc = "get"
    /\ LET found == RowsOfKey(ratings, KeyOf(procs[p].req))
       IN procs' = [procs EXCEPT ![p] =
                      IF found = {}
                      THEN [@ EXCEPT !.pc = "create", !.missed = TRUE]
                      ELSE [@ EXCEPT !.pc = "save", !.row = (CHOOSE x \in found : TRUE).id]]
    /\ UNCHANGED <<ratings, now>>
    /\ RaceUnchanged

\* get_or_create: self.create(**params) in a savepoint; IntegrityError sends
\* it to the second get
rate_create(p) ==
    /\ procs[p].pc = "create"
    /\ LET r == procs[p].req
           k == KeyOf(r)
       IN IF UniqueTogether(ratings, k)
          THEN /\ ratings' = ratings \cup
                     {RatingRow(Cardinality(ratings) + 1, k[1], k[2], k[3],
                                IntOfDecimal(DecimalOf(r.score)), now + 1)}
               /\ now' = now + 1
               /\ procs' = [procs EXCEPT ![p] = [@ EXCEPT !.pc = "respond", !.created = TRUE]]
          ELSE /\ procs' = [procs EXCEPT ![p] = [@ EXCEPT !.pc = "reget"]]
               /\ UNCHANGED <<ratings, now>>
    /\ RaceUnchanged

\* get_or_create: the get after IntegrityError; the error is re-raised when
\* the row is still not there
rate_reget(p) ==
    /\ procs[p].pc = "reget"
    /\ LET found == RowsOfKey(ratings, KeyOf(procs[p].req))
       IN procs' = [procs EXCEPT ![p] =
                      IF found = {}
                      THEN [@ EXCEPT !.pc = "done", !.resp = Unhandled("rate", "IntegrityError")]
                      ELSE [@ EXCEPT !.pc = "save", !.row = (CHOOSE x \in found : TRUE).id]]
    /\ UNCHANGED <<ratings, now>>
    /\ RaceUnchanged

\* if not created: rating.score = score; rating.save()
rate_save(p) ==
    /\ procs[p].pc = "save"
    /\ LET row == CHOOSE x \in ratings : x.id = procs[p].row
       IN ratings' = SaveScore(ratings, row, IntOfDecimal(DecimalOf(procs[p].req.score)), now + 1)
    /\ now' = now + 1
    /\ procs' = [procs EXCEPT ![p] = [@ EXCEPT !.pc = "respond"]]
    /\ RaceUnchanged

\* the aggregate over the target's rows and the JSON answer
rate_respond(p) ==
    /\ procs[p].pc = "respond"
    /\ LET r == procs[p].req
       IN procs' = [procs EXCEPT ![p] =
                      [@ EXCEPT !.pc = "done",
                                !.resp = Resp("rate", 200, "",
                                              RateBody(ratings, r.target_type, r.target_id,
                                                       DecimalOf(r.score)))]]
    /\ UNCHANGED <<ratings, now>>
    /\ RaceUnchanged

\* ------------------------- add_comment_api and deletes, statement by statement
\* Two requests in flight at once (procs), each worker taking its next
\* request when it has answered: add_comment_api runs its two lookups
\* and its INSERT as separate statements, outside any transaction;
\* Model.delete() first collects the rows that cascade, then deletes them in
\* one transaction. Every ForeignKey of Comment is a constraint of the
\* database: a statement or transaction that would leave a Comment row
\* pointing to a missing row fails with IntegrityError and writes nothing.
IdleWorker == [pc |-> "idle", req |-> NoRequest, collected |-> {}, resp |-> NoResponse]

\* mutant: the foreign keys are not constraints of the database
ForeignKeysUnchecked(cs, ents) == TRUE

\* the foreign keys of every Comment row point to stored rows
ForeignKeysHold(cs, ents) ==
    \A c \in cs :
        /\ (c.parent # None) => (c.parent \in {x.id : x \in cs})
        /\ \A t \in TargetTypes : (c[t] # None) => (c[t] \in ents[t])

WorkerUnchanged ==
    UNCHANGED <<users, profiles, tokens, visits, nextVisitId, ratings, request, response,
                deleted, notifications, follows, nextFollowId>>

\* json.loads, the content check and the lookup of the parent comment
add_begin(p, r) ==
    /\ procs[p].pc \in {"idle", "done"}
    /\ procs' = [procs EXCEPT ![p] =
          IF ~r.json
          THEN [IdleWorker EXCEPT !.pc = "done", !.req = r,
                                  !.resp = Resp("add_comment", 400, "Invalid JSON", NoBody)]
          ELSE IF Strip(r.content) = <<>>
          THEN [IdleWorker EXCEPT !.pc = "done", !.req = r,
                                  !.resp = Resp("add_comment", 400, "Content is required", NoBody)]
          ELSE IF r.parent_id # None /\ r.parent_id \notin CommentIds
          THEN [IdleWorker EXCEPT !.pc = "done", !.req = r,
                                  !.resp = Resp("add_comment", 404,
                                                "No Comment matches the given query", NoBody)]
          ELSE [IdleWorker EXCEPT !.pc = "target", !.req = r]]
    /\ UNCHANGED <<entities, catalog, comments, nextCommentId, now>>
    /\ WorkerUnchanged

\* the scan of field_model_map and the lookup of the target
add_target(p) ==
    /\ procs[p].pc = "target"
    /\ LET r == procs[p].req
           i == FirstSetField(r.target_ids, 1)
       IN procs' = [procs EXCEPT ![p] =
             IF i = 0
             THEN [@ EXCEPT !.pc = "done",
                            !.resp = Resp("add_comment", 400,
                                          "No valid target object specified", NoBody)]
             ELSE IF r.target_ids[TargetOrder[i]] \notin entities[TargetOrder[i]]
             THEN [@ EXCEPT !.pc = "done",
                            !.resp = Resp("add_comment", 404,
                                          "No target matches the given query", NoBody)]
             ELSE [@ EXCEPT !.pc = "insert"]]
    /\ UNCHANGED <<entities, catalog, comments, nextCommentId, now>>
    /\ WorkerUnchanged

\* Comment.objects.create(...): the INSERT
add_insert(p) ==
    /\ procs[p].pc = "insert"
    /\ LET r == procs[p].req
           field == TargetOrder[FirstSetField(r.target_ids, 1)]
           row == CommentRow(nextCommentId, field, r.target_ids[field],
                             ResolveUser(r.header), Strip(r.content), now + 1, r.parent_id,
                             r.is_anonymous)
       IN IF ForeignKeysHold(comments \cup {row}, entities)
          THEN /\ comments' = comments \cup {row}
               /\ nextCommentId' = nextCommentId + 1
               /\ now' = now + 1
               /\ procs' = [procs EXCEPT ![p] =
                     [@ EXCEPT !.pc = "done",
                               !.resp = Resp("add_comment", 200, "",
                                             [id |-> row.id, content |-> row.content,
                                              created_at |-> row.created_at,
                                              target |-> field])]]
          ELSE /\ procs' = [procs EXCEPT ![p] =
                     [@ EXCEPT !.pc = "done",
                               !.resp = Unhandled("add_comment", "IntegrityError")]]
               /\ UNCHANGED <<comments, nextCommentId, now>>
    /\ UNCHANGED <<entities, catalog>>
    /\ WorkerUnchanged

\* delete_comment_api up to comment.delete(): the lookup and the author check
del_begin(p, r) ==
    /\ procs[p].pc \in {"idle", "done"}
    /\ LET res == DeleteCommentResult(r)
       IN procs' = [procs EXCEPT ![p] =
             IF res.delete THEN [IdleWorker EXCEPT !.pc = "collect", !.req = r]
             ELSE [IdleWorker EXCEPT !.pc = "done", !.req = r, !.resp = res.resp]]
    /\ UNCHANGED <<entities, catalog, comments, nextCommentId, now>>
    /\ WorkerUnchanged

\* comment.delete(): the collector reads the replies that cascade
del_collect(p) ==
    /\ procs[p].pc = "collect"
    /\ procs' = [procs EXCEPT ![p] =
          [@ EXCEPT !.pc = "delete",
                    !.collected = Subtree(comments, {procs[p].req.comment_id})]]
    /\ UNCHANGED <<entities, catalog, comments, nextCommentId, now>>
    /\ WorkerUnchanged

\* comment.delete(): the DELETEs of the collected rows, in one transaction
del_delete(p) ==
    /\ procs[p].pc = "delete"
    /\ LET rest == {c \in comments : c.id \notin procs[p].collected}
       IN IF ForeignKeysHold(rest, entities)
          THEN /\ comments' = rest
               /\ procs' = [procs EXCEPT ![p] =
                     [@ EXCEPT !.pc = "done",
                               !.resp = Resp("delete_comment", 200, "",
                                             [message |-> "Comment deleted successfully"])]]
          ELSE /\ procs' = [procs EXCEPT ![p] =
                     [@ EXCEPT !.pc = "done",
                               !.resp = Unhandled("delete_comment", "IntegrityError")]]
               /\ UNCHANGED comments
    /\ UNCHANGED <<entities, catalog, nextCommentId, now>>
    /\ WorkerUnchanged

\* delete() of a target row (no view does it; the admin site or a shell
\* does): the collector reads the comments on the row and their replies
target_collect(p, t, id) ==
    /\ procs[p].pc \in {"idle", "done"}
    /\ id \in entities[t]
    /\ procs' = [procs EXCEPT ![p] =
          [IdleWorker EXCEPT !.pc = "purge",
                             !.req = [op |-> "delete_target", target_type |-> t, target_id |-> id],
                             !.collected = Subtree(comments, {c.id : c \in {x \in comments :
                                                                              x[t] = id}})]]
    /\ UNCHANGED <<entities, catalog, comments, nextCommentId, now>>
    /\ WorkerUnchanged

\* the DELETEs of the target row and of the collected comments, in one
\* transaction
target_delete(p) ==
    /\ procs[p].pc = "purge"
    /\ LET r == procs[p].req
           rest == {c \in comments : c.id \notin procs[p].collected}
           ents == [entities EXCEPT ![r.target_type] = @ \ {r.target_id}]
       IN IF ForeignKeysHold(rest, ents)
          THEN /\ comments' = rest
               /\ entities' = ents
               /\ catalog' = [catalog EXCEPT ![r.target_type] =
                                 {x \in @ : x.id # r.target_id}]
               /\ procs' = [procs EXCEPT ![p] =
                     [@ EXCEPT !.pc = "done", !.resp = Resp("delete_target", 200, "", NoBody)]]
          ELSE /\ procs' = [procs EXCEPT ![p] =
                     [@ EXCEPT !.pc = "done",
                               !.resp = Unhandled("delete_target", "IntegrityError")]]
               /\ UNCHANGED <<comments, entities, catalog>>
    /\ UNCHANGED <<nextCommentId, now>>
    /\ WorkerUnchanged

\* ------------------------------------------------------------ add_*_api
\* mutant: the duplicate check compares names exactly
IExactCaseSensitive(a, b) == a = b

\* name__iexact
IExact(a, b) == Lower(a) = Lower(b)

\* the primary key the database gives the next row (no view deletes a row
\* of these tables)
NextId(rows) == Cardinality(rows) + 1

\* QuerySet.first() of an unordered query: the row with the least id
First(rows) == CHOOSE x \in rows : \A y \in rows : x.id <= y.id

Existing(op, message, row) ==
    Resp(op, 409, message, [existing |-> [id |-> row.id, name |-> row.name, year |-> row.year]])

Created(op, row) == Resp(op, 200, "", [id |-> row.id, name |-> row.name, year |-> row.year])

\* the writes of a create(): the row and its primary key
StoreEntity(table, res) ==
    IF res.create
    THEN /\ catalog' = [catalog EXCEPT ![table] = @ \cup {res.row}]
         /\ entities' = [entities EXCEPT ![table] = @ \cup {res.row.id}]
    ELSE UNCHANGED <<entities, catalog>>

AddUnchanged ==
    UNCHANGED <<users, profiles, tokens, visits, nextVisitId, ratings, comments, nextCommentId,
                now, deleted, procs, notifications, follows, nextFollowId>>

AddUniversityResult(r) ==
    LET op == "add_university"
        name == Strip(r.name)
        region_name == Strip(r.region)
        region_obj == {g \in Regions : IExact(g.name, region_name)}
    IN IF ~r.json THEN [resp |-> Resp(op, 400, "Invalid JSON", NoBody), create |-> FALSE]
       ELSE IF name = <<>> \/ region_name = <<>>
            THEN [resp |-> Resp(op, 400, "Both name and region are required", NoBody),
                  create |-> FALSE]
       ELSE IF region_obj = {}
            THEN [resp |-> Resp(op, 400, "Region not found", NoBody), create |-> FALSE]
       ELSE LET region == First(region_obj)
                exists == {x \in catalog["university"] :
                              IExact(x.name, name) /\ x.parent = region.id}
            IN IF exists # {}
               THEN [resp |-> Existing(op, "University already exists", First(exists)),
                     create |-> FALSE]
               ELSE LET row == EntityRow(NextId(catalog["university"]), name, region.id,
                                         None, NoYear)
                    IN [resp |-> Created(op, row), create |-> TRUE, row |-> row]

add_university_api ==
    /\ request.op = "add_university"
    /\ LET res == AddUniversityResult(request)
       IN response' = res.resp /\ StoreEntity("university", res)
    /\ request' = NoRequest
    /\ AddUnchanged

\* add_college_api, add_school_api and add_module_api are the same code on
\* (College, University), (School, College) and (Module, School)
AddChildResult(op, table, parentTable, json, rawName, parent_id) ==
    LET name == Strip(rawName)
    IN IF ~json THEN [resp |-> Resp(op, 400, "Invalid JSON", NoBody), create |-> FALSE]
       ELSE IF name = <<>> \/ parent_id = None
            THEN [resp |-> Resp(op, 400, "Both name and parent id are required", NoBody),
                  create |-> FALSE]
       ELSE IF parent_id \notin entities[parentTable]
            THEN [resp |-> Resp(op, 404, "No parent matches the given query", NoBody),
                  create |-> FALSE]
       ELSE LET exists == {x \in catalog[table] : IExact(x.name, name) /\ x.parent = parent_id}
            IN IF exists # {}
               THEN [resp |-> Existing(op, "already exists", First(exists)), create |-> FALSE]
               ELSE LET row == EntityRow(NextId(catalog[table]), name, parent_id, None, NoYear)
                    IN [resp |-> Created(op, row), create |-> TRUE, row |-> row]

add_college_api ==
    /\ request.op = "add_college"
    /\ LET res == AddChildResult("add_college", "college", "university", request.json,
                                 request.name, request.university_id)
       IN response' = res.resp /\ StoreEntity("college", res)
    /\ request' = NoRequest
    /\ AddUnchanged

add_school_api ==
    /\ request.op = "add_school"
    /\ LET res == AddChildResult("add_school", "school", "college", request.json,
                                 request.name, request.college_id)
       IN response' = res.resp /\ StoreEntity("school", res)
    /\ request' = NoRequest
    /\ AddUnchanged

add_module_api ==
    /\ request.op = "add_module"
    /\ LET res == AddChildResult("add_module", "module", "school", request.json,
                                 request.name, request.school_id)
       IN response' = res.resp /\ StoreEntity("module", res)
    /\ request' = NoRequest
    /\ AddUnchanged

AddLecturerResult(r) ==
    LET op == "add_lecturer"
        name == Strip(r.name)
    IN IF ~r.json THEN [resp |-> Resp(op, 400, "Invalid JSON", NoBody), create |-> FALSE]
       ELSE IF name = <<>>
            THEN [resp |-> Resp(op, 400, "Name is required", NoBody), create |-> FALSE]
       ELSE LET exists == {x \in catalog["lecturer"] : IExact(x.name, name)}
            IN IF exists # {}
               THEN [resp |-> Existing(op, "Lecturer already exists", First(exists)),
                     create |-> FALSE]
               ELSE LET row == EntityRow(NextId(catalog["lecturer"]), name, None, None, NoYear)
                    IN [resp |-> Created(op, row), create |-> TRUE, row |-> row]

add_lecturer_api ==
    /\ request.op = "add_lecturer"
    /\ LET res == AddLecturerResult(request)
       IN response' = res.resp /\ StoreEntity("lecturer", res)
    /\ request' = NoRequest
    /\ AddUnchanged

\* the year is stored as given: it is neither stripped nor checked
AddTeachingResult(r) ==
    LET op == "add_teaching"
    IN IF ~r.json THEN [resp |-> Resp(op, 400, "Invalid JSON", NoBody), create |-> FALSE]
       ELSE IF r.lecturer_id = None \/ r.module_id = None \/ r.year = NoYear
            THEN [resp |-> Resp(op, 400, "lecturer_id, module_id, and year are required",
                                NoBody),
                  create |-> FALSE]
       ELSE IF r.lecturer_id \notin entities["lecturer"]
            THEN [resp |-> Resp(op, 404, "No Lecturer matches the given query", NoBody),
                  create |-> FALSE]
       ELSE IF r.module_id \notin entities["module"]
            THEN [resp |-> Resp(op, 404, "No Module matches the given query", NoBody),
                  create |-> FALSE]
       ELSE LET exists == {x \in catalog["teaching"] :
                              /\ x.parent = r.lecturer_id
                              /\ x.module = r.module_id
                              /\ x.year = r.year}
            IN IF exists # {}
               THEN [resp |-> Existing(op, "Teaching record already exists", First(exists)),
                     create |-> FALSE]
               ELSE LET row == EntityRow(NextId(catalog["teaching"]), <<>>, r.lecturer_id,
                                         r.module_id, r.year)
                    IN [resp |-> Created(op, row), create |-> TRUE, row |-> row]

add_teaching_api ==
    /\ request.op = "add_teaching"
    /\ LET res == AddTeachingResult(request)
       IN response' = res.resp /\ StoreEntity("teaching", res)
    /\ request' = NoRequest
    /\ AddUnchanged

\* ------------------------------------ lecturer_rating_trend_api: quartiles
\* Statistics are kept in halves of a score point: a score s is 2 * s, the
\* mean of two scores a and b is a + b; means are kept in hundredths.
\* Null stands for the None of a statistic (JSON null): it is not 0, and it
\* is below every statistic of a non-empty sample.
Null == -1

\* sorted(values)
RECURSIVE Insert(_, _)
Insert(arr, v) ==
    IF arr = <<>> THEN <<v>>
    ELSE IF v <= Head(arr) THEN <<v>> \o arr
    ELSE <<Head(arr)>> \o Insert(Tail(arr), v)

RECURSIVE Sorted(_)
Sorted(values) ==
    IF values = <<>> THEN <<>> ELSE Insert(Sorted(Tail(values)), Head(values))

\* median(a) of compute_quartiles; a[mid] of the code is a[mid + 1] here
median(a) ==
    LET m == Len(a)
        mid == m \div 2
    IN IF m = 0 THEN Null
       ELSE IF m % 2 = 1 THEN 2 * a[mid + 1]
       ELSE a[mid] + a[mid + 1]

\* mutant: for odd n the middle element is kept in the lower half
LowerHalfWithMiddle(arr) == SubSeq(arr, 1, (Len(arr) + 1) \div 2)

\* lower = arr[: n // 2] in both branches
LowerHalf(arr) == SubSeq(arr, 1, Len(arr) \div 2)

\* mutant: for odd n the middle element is kept in the upper half
UpperHalfWithMiddle(arr) == SubSeq(arr, (Len(arr) \div 2) + 1, Len(arr))

\* upper = arr[n // 2 :] for even n, arr[n // 2 + 1 :] for odd n
UpperHalf(arr) ==
    LET n == Len(arr)
    IN IF n % 2 = 0 THEN SubSeq(arr, (n \div 2) + 1, n)
       ELSE SubSeq(arr, (n \div 2) + 2, n)

NoQuartiles == [min |-> Null, q1 |-> Null, median |-> Null, q3 |-> Null, max |-> Null]

compute_quartiles(values) ==
    IF values = <<>> THEN NoQuartiles
    ELSE LET arr == Sorted(values)
         IN [min |-> 2 * arr[1],
             q1 |-> median(LowerHalf(arr)),
             median |-> median(arr),
             q3 |-> median(UpperHalf(arr)),
             max |-> 2 * arr[Len(arr)]]

\* one call of compute_quartiles on the sample in flight
compute_quartiles_call ==
    /\ request.op = "compute_quartiles"
    /\ response' = Resp("compute_quartiles", 200, "", compute_quartiles(request.values))
    /\ request' = NoRequest
    /\ UNCHANGED <<users, profiles, tokens, entities, catalog, visits, nextVisitId,
                   ratings, comments, nextCommentId, now,
                   deleted, procs, notifications, follows, nextFollowId>>

\* ------------------------------------------------ lecturer_rating_trend_api
\* Teaching.year is a string; sorted() orders strings character by character
Digits == <<"0", "1", "2", "3", "4", "5", "6", "7", "8", "9">>

DigitRank(c) == CHOOSE i \in 1..Len(Digits) : Digits[i] = c

RECURSIVE StrLess(_, _)
StrLess(a, b) ==
    IF b = <<>> THEN FALSE
    ELSE IF a = <<>> THEN TRUE
    ELSE IF Head(a) = Head(b) THEN StrLess(Tail(a), Tail(b))
    ELSE DigitRank(Head(a)) < DigitRank(Head(b))

\* sorted(set(...)) of year strings
RECURSIVE SortedYears(_)
SortedYears(S) ==
    IF S = {} THEN <<>>
    ELSE LET m == CHOOSE x \in S : \A y \in S \ {x} : StrLess(x, y)
         IN <<m>> \o SortedYears(S \ {m})

EntityById(table, id) == CHOOSE x \in catalog[table] : x.id = id

ModuleOf(t) == EntityById("module", t.module)

SchoolOf(t) == EntityById("school", ModuleOf(t).parent)

CollegeOf(t) == EntityById("college", SchoolOf(t).parent)

\* the filters of the view: the most specific of school, college and
\* university, then the year
TrendTeachings(r) ==
    LET mine == {t \in catalog["teaching"] : t.parent = r.lecturer_id}
        placed == IF r.school_id # None
                  THEN {t \in mine : ModuleOf(t).parent = r.school_id}
                  ELSE IF r.college_id # None
                       THEN {t \in mine : SchoolOf(t).parent = r.college_id}
                  ELSE IF r.university_id # None
                       THEN {t \in mine : CollegeOf(t).parent = r.university_id}
                  ELSE mine
    IN IF r.year_filter # NoYear THEN {t \in placed : t.year = r.year_filter} ELSE placed

\* the raw scores of the ratings of a set of rating rows, as a list
RECURSIVE ValuesOf(_)
ValuesOf(rows) ==
    IF rows = {} THEN <<>>
    ELSE LET r == CHOOSE x \in rows : TRUE
         IN <<r.score>> \o ValuesOf(rows \ {r})

\* Rating rows of content type Teaching on the teachings T
ScoresOn(T) ==
    ValuesOf({r \in ratings : r.content_type = "teaching" /\ r.object_id \in {t.id : t \in T}})

RECURSIVE SumSeq(_)
SumSeq(values) == IF values = <<>> THEN 0 ELSE Head(values) + SumSeq(Tail(values))

\* round(sum(values) / len(values), 2) in hundredths; a sample of fewer
\* than 8 integers has no mean halfway between two hundredths
MeanHundredths(values) == (200 * SumSeq(values) + Len(values)) \div (2 * Len(values))

\* mutant: a year without observation reports zeros
StatsOfZeroWhenEmpty(values) ==
    IF values = <<>>
    THEN [min |-> 0, q1 |-> 0, median |-> 0, q3 |-> 0, max |-> 0, mean |-> 0]
    ELSE LET q == compute_quartiles(values)
         IN [min |-> q.min, q1 |-> q.q1, median |-> q.median, q3 |-> q.q3, max |-> q.max,
             mean |-> MeanHundredths(values)]

\* the six values the view appends for one year
StatsOf(values) ==
    IF values = <<>>
    THEN [min |-> Null, q1 |-> Null, median |-> Null, q3 |-> Null, max |-> Null, mean |-> Null]
    ELSE LET q == compute_quartiles(values)
         IN [min |-> q.min, q1 |-> q.q1, median |-> q.median, q3 |-> q.q3, max |-> q.max,
             mean |-> MeanHundredths(values)]

\* one statistic of the teachings T for each year of `years`
Series(T, years, field) ==
    [i \in 1..Len(years) |-> StatsOf(ScoresOn({t \in T : t.year = years[i]}))[field]]

QuartileSeries(T, years) ==
    [min |-> Series(T, years, "min"), q1 |-> Series(T, years, "q1"),
     median |-> Series(T, years, "median"), q3 |-> Series(T, years, "q3"),
     max |-> Series(T, years, "max")]

TrendBody(r) ==
    LET teachings == TrendTeachings(r)
        years == SortedYears({t.year : t \in teachings})
        course_names == {ModuleOf(t).name : t \in teachings}
        Course(name) == {t \in teachings : ModuleOf(t).name = name}
    IN [years |-> years,
        overall |-> Series(teachings, years, "mean"),
        courses |-> [name \in course_names |-> Series(Course(name), years, "mean")],
        overall_quartiles |-> QuartileSeries(teachings, years),
        courses_quartiles |-> [name \in course_names |-> QuartileSeries(Course(name), years)]]

lecturer_rating_trend_api ==
    /\ request.op = "rating_trend"
    /\ response' = IF request.lecturer_id \notin entities["lecturer"]
                   THEN Resp("rating_trend", 404, "No Lecturer matches the given query", NoBody)
                   ELSE Resp("rating_trend", 200, "", TrendBody(request))
    /\ request' = NoRequest
    /\ UNCHANGED <<users, profiles, tokens, entities, catalog, visits, nextVisitId,
                   ratings, comments, nextCommentId, now, deleted, procs,
                   notifications, follows, nextFollowId>>

\* ------------------------------------------------------- visit_history_api
\* `now` is read here as the wall clock in minutes (timezone.now())

\* timedelta(minutes=5)
five_minutes == 5

\* a VisitHistory row; timestamp is set when the row is created
VisitRow(id, user, entity_type, entity_id, entity_name, t) ==
    [id |-> id, user |-> user, entity_type |-> entity_type, entity_id |-> entity_id,
     entity_name |-> entity_name, timestamp |-> t]

serialize_visit(v, duplicate) ==
    [id |-> v.id, entityType |-> v.entity_type, entityId |-> v.entity_id,
     entityName |-> v.entity_name, timestamp |-> v.timestamp, duplicate |-> duplicate]

\* mutant: the window test is not restricted to the requesting user
RecentVisitsAnyUser(rows, user, r, t) ==
    {v \in rows : /\ v.entity_type = r.entityType
                  /\ v.entity_id = r.entityId
                  /\ v.timestamp >= t - five_minutes}

\* filter(user=user, entity_type=..., entity_id=..., timestamp__gte=five_minutes_ago)
RecentVisits(rows, user, r, t) ==
    {v \in rows : /\ v.user = user
                  /\ v.entity_type = r.entityType
                  /\ v.entity_id = r.entityId
                  /\ v.timestamp >= t - five_minutes}

\* order_by('-timestamp').first(): a row of the greatest timestamp
Latest(rows) == {v \in rows : \A w \in rows : w.timestamp <= v.timestamp}

\* order_by('-timestamp')[:20]: the orders the database may give to rows of
\* equal timestamp are all possible
NewestFirst(rows) ==
    {s \in [1..Cardinality(rows) -> rows] :
        /\ \A i, j \in DOMAIN s : (i # j) => (s[i] # s[j])
        /\ \A i, j \in DOMAIN s : (i < j) => (s[i].timestamp >= s[j].timestamp)}

FirstTwenty(s) == SubSeq(s, 1, IF Len(s) < 20 THEN Len(s) ELSE 20)

\* the checks of the view before it reads or writes VisitHistory
VisitCheck(r) ==
    LET op == "visit_history"
    IN IF r.header.scheme = "Token" /\ r.header.key \notin tokens
       THEN Resp(op, 401, "Invalid token", NoBody)
       ELSE IF ResolveUser(r.header) = None THEN Resp(op, 401, "Authentication required", NoBody)
       ELSE IF r.method = "GET" THEN Resp(op, 200, "ok", NoBody)
       ELSE IF r.method # "POST" THEN Resp(op, 405, "Method not allowed", NoBody)
       ELSE IF ~r.json THEN Resp(op, 400, "Invalid JSON", NoBody)
       ELSE IF r.entityType = "" \/ r.entityId = None \/ r.entityName = <<>>
            THEN Resp(op, 400, "Missing required field", NoBody)
       ELSE Resp(op, 200, "ok", NoBody)

\* a POST that passes the checks and finds no recent record creates one
VisitCreates(r) ==
    /\ r.method = "POST"
    /\ VisitCheck(r).status = 200
    /\ RecentVisits(visits, ResolveUser(r.header), r, now) = {}

visit_history_api ==
    /\ request.op = "visit_history"
    /\ LET chk == VisitCheck(request)
           user == ResolveUser(request.header)
           recent == RecentVisits(visits, user, request, now)
       IN IF chk.status # 200
          THEN response' = chk /\ UNCHANGED <<visits, nextVisitId>>
          ELSE IF request.method = "GET"
          THEN /\ \E s \in NewestFirst({v \in visits : v.user = user}) :
                     response' = Resp("visit_history", 200, "",
                                      [records |-> [i \in DOMAIN FirstTwenty(s) |->
                                                      serialize_visit(s[i], FALSE)]])
               /\ UNCHANGED <<visits, nextVisitId>>
          ELSE IF recent # {}
          THEN /\ \E v \in Latest(recent) :
                     response' = Resp("visit_history", 200, "", serialize_visit(v, TRUE))
               /\ UNCHANGED <<visits, nextVisitId>>
          ELSE LET record == VisitRow(nextVisitId, user, request.entityType, request.entityId,
                                      request.entityName, now)
               IN /\ visits' = visits \cup {record}
                  /\ nextVisitId' = nextVisitId + 1
                  /\ response' = Resp("visit_history", 200, "", serialize_visit(record, FALSE))
    /\ request' = NoRequest
    /\ UNCHANGED <<users, profiles, tokens, entities, catalog, ratings, comments,
                   nextCommentId, now, deleted, procs, notifications, follows, nextFollowId>>

\* a minute passes
Tick ==
    /\ now < MaxMinutes
    /\ now' = now + 1
    /\ UNCHANGED <<users, profiles, tokens, entities, catalog, visits, nextVisitId,
                   ratings, comments, nextCommentId, request, response, deleted, procs,
                   notifications, follows, nextFollowId>>

\* ------------------------------------------------------- specifications
\* the requests of one client population: which target fields, parents,
\* headers and flags its add-comment requests draw from
TargetMaps(ids, k) ==
    {f \in [TargetTypes -> {None} \cup ids] : Cardinality({t \in TargetTypes : f[t] # None}) <= k}

AddCommentRequests(contents, parents, anons, headers, maps) ==
    [op : {"add_comment"}, json : {TRUE}, content : contents, parent_id : parents,
     is_anonymous : anons, header : headers, target_ids : maps]
    \cup {[op |-> "add_comment", json |-> FALSE, content |-> <<>>, parent_id |-> None,
           is_anonymous |-> FALSE, header |-> NoHeader,
           target_ids |-> [t \in TargetTypes |-> None]]}

DeleteCommentRequests(headers) ==
    [op : {"delete_comment"}, comment_id : 1..MaxComments, header : headers]

Token(u) == [scheme |-> "Token", key |-> u]

OnUniversity == {[t \in TargetTypes |-> IF t = "university" THEN 1 ELSE None]}

OnLecturer == {[t \in TargetTypes |-> IF t = "lecturer" THEN 1 ELSE None]}

Untargeted == {[t \in TargetTypes |-> None]}

\* rating: registration, login and rate_api
ReceiveRate == now < MaxClock /\ \E r \in RateRequests : Receive(r)

ReceiveRegister == \E r \in RegisterRequests : Receive(r)

ReceiveLogin == \E r \in LoginRequests : Receive(r)

NextRate == ReceiveRate \/ ReceiveRegister \/ ReceiveLogin \/ rate_api \/ register_api \/ login_api

SpecRate == Init /\ [][NextRate]_vars

\* racing rate_api requests of student `b` and lecturer `c` on University 1
\* and Lecturer 1
RaceRequests ==
    [op : {"rate"}, json : {TRUE}, header : {Token(2), Token(3)},
     target_type : {"university", "lecturer"}, target_id : {1},
     score : {NumScore(10), NumScore(50)}]

NextRace ==
    \E p \in DOMAIN procs :
        \/ \E r \in RaceRequests : rate_begin(p, r)
        \/ rate_get(p)
        \/ rate_create(p)
        \/ rate_reget(p)
        \/ rate_save(p)
        \/ rate_respond(p)

InitRace == InitStore /\ procs = [p \in 1..NumProcs |-> IdleProc]

SpecRace == InitRace /\ [][NextRace]_vars

\* target resolution: add_comment_api with up to MaxTargetFields fields set
ReceiveAddTarget ==
    /\ nextCommentId <= MaxComments
    /\ \E r \in AddCommentRequests({<<" ", "h">>}, {None}, {FALSE}, {NoHeader, Token(2)},
                                    TargetMaps({1, 2}, MaxTargetFields)) : Receive(r)

NextTarget == ReceiveAddTarget \/ add_comment_api

SpecTarget == Init /\ [][NextTarget]_vars

\* threads: replies and deletion on one university
ReceiveAddReply ==
    /\ nextCommentId <= MaxComments
    /\ \E r \in AddCommentRequests({<<" ">>, <<"h", " ">>}, 0..MaxComments, BOOLEAN,
                                    {NoHeader, Token(2), Token(3)},
                                    OnUniversity \cup Untargeted) : Receive(r)

ReceiveDelete == \E r \in DeleteCommentRequests({NoHeader, Token(2), Token(3), Token(9)}) : Receive(r)

NextThread == ReceiveAddReply \/ ReceiveDelete \/ add_comment_api \/ delete_comment_api

SpecThread == Init /\ [][NextThread]_vars

\* comments posted without a resolvable author, replies to them, and deletes
ReceiveAddAuthorless ==
    /\ nextCommentId <= MaxComments
    /\ \E r \in AddCommentRequests({<<"h">>}, 0..MaxComments, {FALSE},
                                    {NoHeader, Token(2), Token(9)}, OnUniversity) : Receive(r)

ReceiveDeleteAny ==
    \E r \in DeleteCommentRequests({NoHeader, Token(2), Token(3), Token(9)}) : Receive(r)

NextAuthorless ==
    ReceiveAddAuthorless \/ ReceiveDeleteAny \/ add_comment_api \/ delete_comment_api

SpecAuthorless == Init /\ [][NextAuthorless]_vars

\* views: anonymous and signed comments read back through the detail view
ReceiveAddSigned ==
    /\ nextCommentId <= MaxComments
    /\ \E r \in AddCommentRequests({<<"h">>}, 0..MaxComments, BOOLEAN,
                                    {NoHeader, Token(1), Token(2)}, OnUniversity) : Receive(r)

ReceiveDetail == \E id \in {1, 2} : Receive([op |-> "university_detail", university_id |-> id])

NextView == ReceiveAddSigned \/ ReceiveDetail \/ add_comment_api \/ university_detail_api

SpecView == Init /\ [][NextView]_vars

\* replies across entities: a reply may name any target next to its parent
ReceiveAddCross ==
    /\ nextCommentId <= MaxComments
    /\ \E r \in AddCommentRequests({<<"h">>}, 0..MaxComments, {FALSE}, {NoHeader},
                                    OnUniversity \cup OnLecturer) : Receive(r)

NextReply == ReceiveAddCross \/ add_comment_api

SpecReply == Init /\ [][NextReply]_vars

\* notifications: replies between `b`, `c` and unauthenticated posters on
\* University 1, read and marked by their recipients
ReceiveAddNotify ==
    /\ nextCommentId <= MaxComments
    /\ \E r \in AddCommentRequests({<<"h">>}, 0..MaxComments, {FALSE},
                                    {NoHeader, Token(2), Token(3)}, OnUniversity) : Receive(r)

NotificationsRequests ==
    [op : {"notifications"}, method : {"GET"}, json : {TRUE}, header : {NoHeader, Token(2), Token(9)},
     notification_ids : {{}}]
    \cup [op : {"notifications"}, method : {"PUT"}, json : {TRUE},
          header : {NoHeader, Token(2), Token(3), Token(9)},
          notification_ids : SUBSET (1..(MaxComments - 1))]
    \cup {[op |-> "notifications", method |-> "PUT", json |-> FALSE, header |-> Token(2),
           notification_ids |-> {}]}

ReceiveNotifications == \E r \in NotificationsRequests : Receive(r)

ReceiveUnreadCount ==
    \E h \in {NoHeader, Token(2), Token(3), Token(9)} : Receive([op |-> "unread_count", header |-> h])

NextNotify ==
    \/ ReceiveAddNotify \/ ReceiveNotifications \/ ReceiveUnreadCount
    \/ add_comment_notify \/ notifications_api \/ unread_notifications_count_api

SpecNotify == Init /\ [][NextNotify]_vars

\* follows: `b` and `c` follow and unfollow University 1 and Lecturer 1
FollowRequests ==
    [op : {"follow"}, method : {"POST", "DELETE"}, json : {TRUE},
     header : {NoHeader, Token(2), Token(3), Token(9)},
     entity_type : {"university", "lecturer", "region", ""},
     entity_id : {0, -10, 10, 15}]
    \cup {[op |-> "follow", method |-> "POST", json |-> FALSE, header |-> Token(2),
           entity_type |-> "", entity_id |-> 0]}

ReceiveFollow == nextFollowId <= MaxFollows /\ \E r \in FollowRequests : Receive(r)

NextFollow == ReceiveFollow \/ follow_api

SpecFollow == Init /\ [][NextFollow]_vars

\* aggregates: three students rate University 1 and Lecturer 1, and the
\* aggregate and the own score are read back. InitScore is the store of Init
\* after the students `d` and `e` have registered and logged in.
InitScore ==
    /\ users = << [username |-> <<"a">>, password |-> <<"p">>],
                  [username |-> <<"b">>, password |-> <<"p">>],
                  [username |-> <<"c">>, password |-> <<"p">>],
                  [username |-> <<"d">>, password |-> <<"p">>],
                  [username |-> <<"e">>, password |-> <<"p">>] >>
    /\ profiles = (2 :> "student") @@ (3 :> "lecturer") @@ (4 :> "student") @@ (5 :> "student")
    /\ tokens = {1, 2, 3, 4, 5}
    /\ InitTables
    /\ procs = <<>>

ScoreRateRequests ==
    {[op |-> "rate", json |-> TRUE, header |-> Token(q[1]), target_type |-> q[2],
      target_id |-> 1, score |-> NumScore(q[3])] :
        q \in {<<2, "university", 10>>, <<2, "university", 20>>, <<4, "university", 10>>,
               <<5, "university", 20>>, <<2, "lecturer", 50>>, <<3, "university", 10>>}}

UserRatingRequests ==
    [op : {"user_rating"}, header : {NoHeader, Token(2), Token(3)},
     target_type : {"university", "lecturer", "region"}, target_id : {None, 1}]

ReceiveScoreRate == now < MaxRatings /\ \E r \in ScoreRateRequests : Receive(r)

ReceiveUserRating == \E r \in UserRatingRequests : Receive(r)

NextScore ==
    \/ ReceiveScoreRate \/ ReceiveUserRating \/ ReceiveDetail
    \/ rate_api \/ get_user_rating_api \/ university_detail_api

SpecScore == InitScore /\ [][NextScore]_vars

\* every view, one request at a time
\* compute_quartiles on every sample of valid scores up to MaxSample, in
\* every order
Samples == UNION {[1..n -> ValidScores] : n \in 0..MaxSample}

ReceiveSample == \E v \in Samples : Receive([op |-> "compute_quartiles", values |-> v])

NextQuartiles == ReceiveSample \/ compute_quartiles_call

SpecQuartiles == Init /\ [][NextQuartiles]_vars

\* one row in each entity table, then add requests for every table
InitCatalog ==
    /\ users = << [username |-> <<"a">>, password |-> <<"p">>] >>
    /\ profiles = <<>>
    /\ tokens = {1}
    /\ InitEntities([t \in TargetTypes |-> 1])
    /\ InitRows
    /\ procs = <<>>

RECURSIVE CatalogSize(_)
CatalogSize(types) ==
    IF types = {} THEN 0
    ELSE LET t == CHOOSE x \in types : TRUE
         IN Cardinality(catalog[t]) + CatalogSize(types \ {t})

NameInputs == {<<"l">>, <<" ", "L">>, <<"x">>, <<" ">>}

AddEntityRequests ==
    [op : {"add_university"}, json : {TRUE}, name : NameInputs,
     region : {<<"s">>, <<"X", " ">>, <<"l">>, <<>>}]
    \cup [op : {"add_college"}, json : {TRUE}, name : NameInputs, university_id : {None, 1, 2}]
    \cup [op : {"add_school"}, json : {TRUE}, name : NameInputs, college_id : {None, 1, 2}]
    \cup [op : {"add_module"}, json : {TRUE}, name : NameInputs, school_id : {None, 1, 2}]
    \cup [op : {"add_lecturer"}, json : {TRUE}, name : NameInputs]
    \cup [op : {"add_teaching"}, json : {TRUE}, lecturer_id : {None, 1, 2},
          module_id : {None, 1, 2}, year : {NoYear, <<"9">>, <<"1", "0">>}]
    \cup {[op |-> "add_college", json |-> FALSE, name |-> <<>>, university_id |-> None],
          [op |-> "add_teaching", json |-> FALSE, lecturer_id |-> None, module_id |-> None,
           year |-> NoYear]}

ReceiveAddEntity ==
    /\ CatalogSize(TargetTypes) < MaxEntities
    /\ \E r \in AddEntityRequests : Receive(r)

NextCatalog ==
    \/ ReceiveAddEntity
    \/ add_university_api \/ add_college_api \/ add_school_api
    \/ add_module_api \/ add_lecturer_api \/ add_teaching_api

SpecCatalog == InitCatalog /\ [][NextCatalog]_vars

\* a lecturer with teachings of two modules in the years "9" and "10", a
\* lecturer without teaching, and two students who rate the teachings
InitTrend ==
    /\ users = << [username |-> <<"a">>, password |-> <<"p">>],
                  [username |-> <<"b">>, password |-> <<"p">>],
                  [username |-> <<"c">>, password |-> <<"p">>],
                  [username |-> <<"d">>, password |-> <<"p">>] >>
    /\ profiles = (2 :> "student") @@ (3 :> "lecturer") @@ (4 :> "student")
    /\ tokens = {1, 2, 3, 4}
    /\ entities = [t \in TargetTypes |->
                      CASE t \in {"university", "college"} -> {1}
                        [] t \in {"school", "module", "lecturer"} -> {1, 2}
                        [] OTHER -> {1, 2, 3}]
    /\ catalog = [t \in TargetTypes |->
                     CASE t \in {"university", "college"} ->
                            {EntityRow(1, <<"l">>, 1, None, NoYear)}
                       [] t = "school" ->
                            {EntityRow(1, <<"l">>, 1, None, NoYear),
                             EntityRow(2, <<"x">>, 1, None, NoYear)}
                       [] t = "module" ->
                            {EntityRow(1, <<"l">>, 1, None, NoYear),
                             EntityRow(2, <<"x">>, 2, None, NoYear)}
                       [] t = "lecturer" ->
                            {EntityRow(1, <<"l">>, None, None, NoYear),
                             EntityRow(2, <<"x">>, None, None, NoYear)}
                       [] OTHER ->
                            {EntityRow(1, <<>>, 1, 1, <<"9">>),
                             EntityRow(2, <<>>, 1, 1, <<"1", "0">>),
                             EntityRow(3, <<>>, 1, 2, <<"1", "0">>)}]
    /\ InitRows
    /\ procs = <<>>

TrendRateRequests ==
    [op : {"rate"}, json : {TRUE}, header : {Token(2), Token(4)},
     target_type : {"teaching"}, target_id : {1, 2, 3}, score : {NumScore(10), NumScore(40)}]

TrendRequests ==
    [op : {"rating_trend"}, lecturer_id : {1, 2, 3}, university_id : {None, 2},
     college_id : {None, 1}, school_id : {None, 2}, year_filter : {NoYear, <<"9">>}]

ReceiveTrendRate == now < MaxClock /\ \E r \in TrendRateRequests : Receive(r)

ReceiveTrend == \E r \in TrendRequests : Receive(r)

NextTrend == ReceiveTrendRate \/ ReceiveTrend \/ rate_api \/ lecturer_rating_trend_api

SpecTrend == InitTrend /\ [][NextTrend]_vars

VisitRequests ==
    [op : {"visit_history"}, method : {"POST"}, json : {TRUE},
     header : {NoHeader, Token(2), Token(3), Token(9)},
     entityType : {"university", "lecturer"}, entityId : {1}, entityName : {<<"l">>}]
    \cup [op : {"visit_history"}, method : {"GET"}, json : {TRUE},
          header : {NoHeader, Token(2), Token(3), Token(9)},
          entityType : {""}, entityId : {None}, entityName : {<<>>}]
    \cup {[op |-> "visit_history", method |-> q[1], json |-> q[2], header |-> Token(2),
           entityType |-> q[3], entityId |-> q[4], entityName |-> q[5]] :
             q \in {<<"PUT", TRUE, "university", 1, <<"l">> >>,
                    <<"POST", FALSE, "", None, <<>> >>,
                    <<"POST", TRUE, "", 1, <<"l">> >>,
                    <<"POST", TRUE, "university", None, <<"l">> >>,
                    <<"POST", TRUE, "university", 1, <<>> >>}}

\* no record is created beyond MaxVisits
ReceiveVisit ==
    \E r \in VisitRequests :
        /\ VisitCreates(r) => (nextVisitId <= MaxVisits)
        /\ Receive(r)

NextVisit == ReceiveVisit \/ Tick \/ visit_history_api

SpecVisit == Init /\ [][NextVisit]_vars

\* one worker serves add_comment_api, the other the deletes
Commenter == 1

Remover == 2

InitOrphan == InitStore /\ procs = <<IdleWorker, IdleWorker>>

BeginAdd ==
    /\ nextCommentId <= MaxComments
    /\ \E r \in AddCommentRequests({<<"h">>}, {None, 1, 2}, {FALSE}, {Token(2)},
                                    OnUniversity \cup OnLecturer) : add_begin(Commenter, r)

BeginDelete == \E r \in DeleteCommentRequests({Token(2)}) : del_begin(Remover, r)

BeginDeleteTarget == \E t \in {"university", "lecturer"} : target_collect(Remover, t, 1)

NextOrphan ==
    \/ BeginAdd \/ add_target(Commenter) \/ add_insert(Commenter)
    \/ BeginDelete \/ del_collect(Remover) \/ del_delete(Remover)
    \/ BeginDeleteTarget \/ target_delete(Remover)

SpecOrphan == InitOrphan /\ [][NextOrphan]_vars

Next ==
    \/ ReceiveRate \/ ReceiveRegister \/ ReceiveLogin
    \/ ReceiveAddTarget \/ ReceiveAddReply \/ ReceiveAddSigned \/ ReceiveDelete \/ ReceiveDetail
    \/ ReceiveAddCross \/ ReceiveUserRating \/ ReceiveNotifications \/ ReceiveUnreadCount
    \/ ReceiveFollow
    \/ rate_api \/ register_api \/ login_api
    \/ add_comment_api \/ delete_comment_api \/ university_detail_api
    \/ get_user_rating_api \/ notifications_api \/ unread_notifications_count_api \/ follow_api
    \/ ReceiveAddAuthorless \/ ReceiveDeleteAny
    \/ ReceiveSample \/ compute_quartiles_call
    \/ ReceiveAddEntity \/ add_university_api \/ add_college_api \/ add_school_api
    \/ add_module_api \/ add_lecturer_api \/ add_teaching_api
    \/ ReceiveTrend \/ lecturer_rating_trend_api
    \/ ReceiveVisit \/ Tick \/ visit_history_api

Spec == Init /\ [][Next]_vars

\* ================================================================ claims
\* the user a request authenticates as: the owner of the token its
\* Authorization header carries, None without a known token
Requester == IF request.header.scheme = "Token" /\ request.header.key \in tokens
             THEN request.header.key ELSE None

\* the JSON score is an integer in 1..5 (3 and 3.0 are the same JSON number)
IsIntegerScore(sc) ==
    \/ sc.kind = "num" /\ \E n \in 1..5 : sc.tenths = 10 * n
    \/ sc.kind = "str" /\ sc.text \in {"1", "2", "3", "4", "5"}

RowsOn(rows, u, ct, oid) ==
    {x \in rows : x.user = u /\ x.content_type = ct /\ x.object_id = oid}

\* C1: the store never holds two Rating rows for one (user, content type,
\* object id), and a successful rate_api by a user who already has a row on
\* the target adds no row and leaves that one row holding the new score.
C1_OneRowPerUserAndTarget ==
    /\ [](\A x, y \in ratings :
            (x.user = y.user /\ x.content_type = y.content_type /\ x.object_id = y.object_id)
               => x = y)
    /\ [][(request.op = "rate" /\ response'.status = 200
            /\ RowsOn(ratings, Requester, request.target_type, request.target_id) # {})
           => /\ Cardinality(ratings') = Cardinality(ratings)
              /\ \A x \in RowsOn(ratings', Requester, request.target_type, request.target_id) :
                     10 * x.score = DecimalOf(request.score).tenths]_vars

\* a row that was rated 1 and now holds the 5 of the answered second request
C1_Witness ==
    /\ response.op = "rate" /\ response.status = 200 /\ response.body.score = 50
    /\ response.body.count = 1
    /\ \E x \in ratings : x.updated_at > x.created_at /\ x.score = 5

\* the target references of a comment that are set
TargetsSet(c) == {t \in TargetTypes : c[t] # None}

\* C2: every stored Comment has exactly one of its six target references
\* set and the other five null.
C2_ExactlyOneTarget == \A c \in comments : Cardinality(TargetsSet(c)) = 1

\* comments stored on a university and on a lecturer
C2_Witness ==
    /\ \E c \in comments : TargetsSet(c) = {"university"}
    /\ \E c \in comments : TargetsSet(c) = {"lecturer"}

\* C3: an add_comment_api request with two or more target-id fields set is
\* rejected (an error status) and persists no comment.
C3_AmbiguousTargetRejected ==
    [][(request.op = "add_comment" /\ request.json
        /\ Cardinality({t \in TargetTypes : request.target_ids[t] # None}) >= 2)
       => (response'.status >= 400 /\ comments' = comments)]_vars

\* every node of a serialized forest of threads
RECURSIVE Nodes(_)
Nodes(threads) ==
    UNION {{threads[i]} \cup Nodes(threads[i].replies) : i \in 1..Len(threads)}

\* C4: in the answer of the detail view, a comment that is stored anonymous
\* or without author has null username and null role; username or role is
\* non-null only for a signed comment that has an author.
C4_AnonymousIdentityNull ==
    (response.op = "university_detail" /\ response.status = 200)
    => \A n \in Nodes(response.body.comments) :
          \E c \in comments :
             /\ c.id = n.id
             /\ ((c.is_anonymous \/ c.user = None) => (n.username = NoName /\ n.role = NoRole))
             /\ ((n.username # NoName \/ n.role # NoRole) => (~c.is_anonymous /\ c.user # None))

\* the view answered with an anonymous comment of a known author and a
\* signed one
C4_Witness ==
    /\ response.op = "university_detail" /\ response.status = 200
    /\ \E n \in Nodes(response.body.comments) :
          /\ n.is_anonymous /\ n.username = NoName /\ n.role = NoRole
          /\ \E c \in comments : c.id = n.id /\ c.user # None
    /\ \E n \in Nodes(response.body.comments) : ~n.is_anonymous /\ n.role = "student"

\* the Comment table with user u recorded as the author of comment c
WithAuthor(cs, c, u) == (cs \ {c}) \cup {[c EXCEPT !.user = u]}

\* C5: the threads the detail view returns do not depend on which user is
\* recorded as the author of an anonymous comment.
C5_AnonymousAuthorHidden ==
    \A c \in comments : \A u \in UserIds :
        (c.is_anonymous /\ c.user # None)
           => UniversityThreads(WithAuthor(comments, c, u), 1) = UniversityThreads(comments, 1)

\* a is an ancestor of the comment with id x, or x itself (following parent)
RECURSIVE ReachesUp(_, _, _)
ReachesUp(cs, x, a) ==
    IF x = a THEN TRUE
    ELSE LET row == {c \in cs : c.id = x}
         IN IF row = {} THEN FALSE
            ELSE LET c == CHOOSE y \in row : TRUE
                 IN IF c.parent = None THEN FALSE ELSE ReachesUp(cs \ {c}, c.parent, a)

\* C6: delete_comment_api changes the Comment table only when the requester
\* is the stored author of the comment; an absent comment gives 404, any
\* other requester or none gives 403, and both leave the table unchanged.
C6_OnlyAuthorDeletes ==
    [][request.op = "delete_comment"
       => LET stored == {c \in comments : c.id = request.comment_id}
          IN /\ (stored = {}) => (response'.status = 404 /\ comments' = comments)
             /\ \A c \in stored :
                   /\ ((Requester = None \/ c.user # Requester)
                         => (response'.status = 403 /\ comments' = comments))
                   /\ ((Requester # None /\ c.user = Requester)
                         => (response'.status = 200 /\ c \notin comments'))]_vars

\* an author has deleted their own comment, which carried one reply
C6_Witness ==
    /\ response.op = "delete_comment" /\ response.status = 200
    /\ Cardinality(deleted) = 2

\* C7: a successful delete of comment c removes exactly c and its transitive
\* replies and leaves every other comment as it was.
C7_CascadeExactlySubtree ==
    [][(request.op = "delete_comment" /\ response'.status = 200)
       => comments' = {x \in comments : ~ReachesUp(comments, x.id, request.comment_id)}]_vars

\* a comment went together with its two nested replies
C7_Witness ==
    /\ response.op = "delete_comment" /\ response.status = 200
    /\ Cardinality(deleted) = 3

\* the request is complete and its score is valid
WellFormedRate == request.json /\ request.target_type # "" /\ request.target_id # None
                  /\ IsIntegerScore(request.score)

\* C8: a Rating row is written or changed only by a rate_api request that
\* carries the token of a user whose profile role is student; a well-formed
\* request without a known token gets 401, one of a lecturer or of a user
\* without profile gets 403; every stored rating belongs to a student.
C8_OnlyStudentsRate ==
    /\ [](\A x \in ratings : x.user \in DOMAIN profiles /\ profiles[x.user] = "student")
    /\ [][
          /\ (ratings' # ratings)
                => (/\ request.op = "rate" /\ Requester # None
                    /\ Requester \in DOMAIN profiles /\ profiles[Requester] = "student")
          /\ (request.op = "rate" /\ WellFormedRate /\ Requester = None)
                => (response'.status = 401)
          /\ (request.op = "rate" /\ WellFormedRate /\ Requester # None
              /\ ~(Requester \in DOMAIN profiles /\ profiles[Requester] = "student"))
                => (response'.status = 403)
          /\ (\A u \in DOMAIN profiles : u \in DOMAIN profiles' /\ profiles'[u] = profiles[u])
       ]_vars

\* the student registered during the run has rated
C8_Witness ==
    /\ response.op = "rate" /\ response.status = 200
    /\ \E x \in ratings : x.user = 4

\* C9: a rate_api request whose score is not an integer in 1..5 gets 400 and
\* changes no Rating row; every stored score is in 1..5.
C9_InvalidScoreIs400 ==
    /\ [](\A x \in ratings : x.score \in 1..5)
    /\ [][(request.op = "rate" /\ ~IsIntegerScore(request.score))
           => (response'.status = 400 /\ ratings' = ratings)]_vars

\* the requests in flight or answered that rate the same (user, target) as p
SameKey(p) ==
    {q \in DOMAIN procs :
        /\ procs[q].pc # "idle"
        /\ procs[q].req.header = procs[p].req.header
        /\ procs[q].req.target_type = procs[p].req.target_type
        /\ procs[q].req.target_id = procs[p].req.target_id}

\* C10: concurrent rate_api requests never leave two rows for one (user,
\* target) and never fail unhandled; of the requests of one user for one
\* target that all missed the row in their first get, exactly one creates
\* it and every other one ends as an update of that row.
C10_RaceLeavesOneRow ==
    /\ \A x, y \in ratings :
          (x.user = y.user /\ x.content_type = y.content_type /\ x.object_id = y.object_id)
             => x = y
    /\ \A p \in DOMAIN procs : procs[p].resp.status # 500
    /\ \A p \in DOMAIN procs :
          (procs[p].pc = "done" /\ procs[p].missed)
          => /\ procs[p].resp.status = 200
             /\ Cardinality({q \in SameKey(p) : procs[q].created}) = 1
             /\ Cardinality({x \in ratings :
                                /\ x.user = procs[p].req.header.key
                                /\ x.content_type = procs[p].req.target_type
                                /\ x.object_id = procs[p].req.target_id}) = 1
             /\ ~procs[p].created
                  => \E x \in ratings :
                        /\ x.user = procs[p].req.header.key
                        /\ x.content_type = procs[p].req.target_type
                        /\ x.object_id = procs[p].req.target_id
                        /\ x.updated_at > x.created_at

\* both requests of student `b` on University 1 missed the row and are done
C10_Witness ==
    \E p, q \in DOMAIN procs :
        /\ p # q /\ procs[p].pc = "done" /\ procs[q].pc = "done"
        /\ procs[p].missed /\ procs[q].missed
        /\ procs[p].req.header = procs[q].req.header
        /\ procs[p].req.target_type = procs[q].req.target_type
        /\ procs[p].req.target_id = procs[q].req.target_id
        /\ procs[p].resp.status = 200 /\ procs[q].resp.status = 200
        /\ procs[p].created /\ ~procs[q].created
        /\ procs[p].req.score # procs[q].req.score

\* the scores of a set of Rating rows add up to s
RECURSIVE ScoreTotal(_)
ScoreTotal(rows) == IF rows = {} THEN 0
                    ELSE LET x == CHOOSE y \in rows : TRUE IN x.score + ScoreTotal(rows \ {x})

Abs(i) == IF i < 0 THEN -i ELSE i

\* agg reports the count of the rows of `rows` on exactly (ct, oid) and, in
\* tenths, a value no further than half a tenth from their mean (0 without rows)
IsAggregateOf(agg, rows, ct, oid) ==
    LET on == {x \in rows : x.content_type = ct /\ x.object_id = oid}
        n == Cardinality(on)
    IN /\ agg.count = n
       /\ IF n = 0 THEN agg.average = 0
          ELSE 2 * Abs(agg.average * n - 10 * ScoreTotal(on)) <= n

\* C11: the aggregate answered by rate_api and by the detail view counts
\* the Rating rows whose type and id are both those of the target, averages
\* exactly those scores to one decimal, and is 0 / 0 without such rows.
C11_AggregateOfExactTarget ==
    [][
       /\ (request.op = "rate" /\ response'.status = 200)
             => IsAggregateOf(response'.body, ratings', request.target_type, request.target_id)
       /\ (request.op = "university_detail" /\ response'.status = 200)
             => IsAggregateOf(response'.body.rating, ratings', "university",
                              request.university_id)
      ]_vars

\* University 1 holds 1, 1 and 2 (mean 1.33, answered 1.3) while Lecturer 1,
\* same id, holds a 5
C11_Witness ==
    /\ response.op = "university_detail" /\ response.status = 200
    /\ response.body.rating = [average |-> 13, count |-> 3]
    /\ \E x \in ratings : x.content_type = "lecturer" /\ x.object_id = 1 /\ x.score = 5

\* C12: every stored comment that has a parent carries the same target
\* references as the stored parent.
C12_ReplySharesParentTarget ==
    \A c \in comments : \A q \in comments :
        (c.parent # None /\ q.id = c.parent) => (\A t \in TargetTypes : c[t] = q[t])

AcceptedFollow(method) ==
    /\ request.op = "follow" /\ request.method = method /\ request.json
    /\ Requester # None
    /\ request.entity_type \in TargetTypes
    /\ request.entity_id >= 10

\* the Follow rows of the requester on the entity the request names
Followed(rows) ==
    {f \in rows : /\ f.user = Requester
                  /\ f.entity_type = request.entity_type
                  /\ 10 * f.entity_id <= request.entity_id
                  /\ request.entity_id < 10 * (f.entity_id + 1)}

\* C14 as stated: every follow of an entity, the first one included, is
\* answered already_following, and the entity has one Follow row afterwards.
C14_TwiceAlreadyFollowing ==
    [][AcceptedFollow("POST")
       => (response'.body.action = "already_following" /\ Cardinality(Followed(follows')) = 1)]_vars

\* C14 amended: a follow of an entity the user does not follow is answered
\* followed and creates the row; a follow of an entity the user follows is
\* answered already_following and creates no second row.
C14_SecondFollowAlreadyFollowing ==
    [][AcceptedFollow("POST")
       => /\ response'.status = 200
          /\ Cardinality(Followed(follows')) = 1
          /\ (Followed(follows) = {}) => (response'.body.action = "followed")
          /\ (Followed(follows) # {})
                => (response'.body.action = "already_following" /\ follows' = follows)]_vars

\* `b` followed University 1 and was told already_following on the repeat
C14_Witness ==
    /\ response.op = "follow" /\ response.status = 200
    /\ response.body.action = "already_following"
    /\ Cardinality({f \in follows : f.user = 2 /\ f.entity_type = "university"
                                    /\ f.entity_id = 1}) = 1
    /\ Cardinality(follows) = 1

\* C15: there is never more than one Follow row per (user, entity type,
\* entity id); a follow of a followed entity is answered already_following
\* and an unfollow of an entity not followed not_following, both with 200
\* and the store as it was; a follow of an entity not followed adds exactly
\* its row and an unfollow of a followed entity removes exactly that row, so
\* that follow then unfollow gives the Follow table back.
C15_FollowUnfollowIdempotent ==
    /\ [](\A f, g \in follows :
            (f.user = g.user /\ f.entity_type = g.entity_type /\ f.entity_id = g.entity_id)
               => f = g)
    /\ [][
          /\ (AcceptedFollow("POST") /\ Followed(follows) # {})
                => (/\ response'.status = 200
                    /\ response'.body.action = "already_following"
                    /\ follows' = follows)
          /\ (AcceptedFollow("DELETE") /\ Followed(follows) = {})
                => (/\ response'.status = 200
                    /\ response'.body.action = "not_following"
                    /\ follows' = follows)
          /\ (AcceptedFollow("POST") /\ Followed(follows) = {})
                => (/\ response'.status = 200
                    /\ follows \subseteq follows'
                    /\ follows' \ follows = Followed(follows')
                    /\ Cardinality(Followed(follows')) = 1)
          /\ (AcceptedFollow("DELETE") /\ Followed(follows) # {})
                => (/\ response'.status = 200
                    /\ follows' = follows \ Followed(follows)
                    /\ Followed(follows') = {})
       ]_vars

\* `b` followed, unfollowed and then was told not_following on University 1,
\* while still following Lecturer 1
C15_Witness ==
    /\ response.op = "follow" /\ response.status = 200
    /\ response.body.action = "not_following"
    /\ nextFollowId = 3
    /\ follows = {FollowRow(2, 2, "lecturer", 1)}

\* the notifications of user u that are unread
Unread(rows, u) == {n \in rows : n.recipient = u /\ ~n.is_read}

\* C16: a mark-read request of an authenticated user is answered 200 and
\* sets is_read on exactly the notifications it names that are addressed to
\* that user, leaving every other notification (of other users, or not
\* named) as it was; a request without a known token changes nothing; the
\* unread count answered to a user is the number of their notifications
\* that are unread; no step turns a read notification unread.
C16_MarkReadOwnOnly ==
    [][
       /\ (request.op = "notifications" /\ request.method = "PUT" /\ request.json
           /\ Requester # None)
             => (/\ response'.status = 200
                 /\ {n.id : n \in notifications'} = {n.id : n \in notifications}
                 /\ \A n \in notifications : \E m \in notifications' :
                       /\ m.id = n.id
                       /\ m = IF n.id \in request.notification_ids /\ n.recipient = Requester
                              THEN [n EXCEPT !.is_read = TRUE] ELSE n)
       /\ (request.op = "notifications" /\ Requester = None)
             => (response'.status = 401 /\ notifications' = notifications)
       /\ (request.op = "unread_count" /\ Requester # None)
             => (/\ response'.status = 200
                 /\ response'.body.unread_count = Cardinality(Unread(notifications', Requester)))
       /\ \A n \in notifications : n.is_read
             => \E m \in notifications' : m.id = n.id /\ m.is_read
      ]_vars

\* `b` and `c` each have a notification and a mark-read request was
\* answered: the one of `b` is read, the one of `c` still unread
C16_Witness ==
    /\ response.op = "notifications" /\ response.status = 200
    /\ response.body = [success |-> TRUE]
    /\ \E n, m \in notifications :
          /\ n.recipient = 2 /\ n.is_read
          /\ m.recipient = 3 /\ ~m.is_read

\* C17: get_user_rating_api changes no state; with both parameters given,
\* it answers a student the score of their Rating row on exactly that
\* target, 0 when they have none, and answers 0 with status 200 to an
\* authenticated user who is not a student. The row of a (user, target)
\* holds the score of that user's latest successful rate_api on that
\* target: such a request leaves the row with its score and no other step
\* changes the row's score.
C17_UserRatingIsLatestScore ==
    [][
       /\ (request.op = "user_rating")
             => (/\ UNCHANGED <<users, profiles, tokens, entities, catalog, visits, nextVisitId,
                                ratings, comments,
                                notifications, follows>>
                 /\ (request.target_type # "" /\ request.target_id # None /\ Requester # None)
                       => IF Requester \in DOMAIN profiles /\ profiles[Requester] = "student"
                          THEN (request.target_type \in TargetTypes)
                                  => (/\ response'.status = 200
                                      /\ LET mine == RowsOn(ratings, Requester, request.target_type,
                                                            request.target_id)
                                         IN IF mine = {} THEN response'.body.score = 0
                                            ELSE \A x \in mine : response'.body.score = 10 * x.score)
                          ELSE (response'.status = 200 /\ response'.body.score = 0))
       /\ \A u \in UserIds : \A ct \in TargetTypes : \A oid \in {1, 2} :
             IF /\ request.op = "rate" /\ response'.status = 200
                /\ Requester = u /\ request.target_type = ct /\ request.target_id = oid
             THEN \E x \in ratings' :
                     /\ RowsOn(ratings', u, ct, oid) = {x}
                     /\ 10 * x.score = DecimalOf(request.score).tenths
             ELSE {x.score : x \in RowsOn(ratings', u, ct, oid)}
                     = {x.score : x \in RowsOn(ratings, u, ct, oid)}
      ]_vars

\* student `b` re-rated University 1 and was answered the new score, 2
C17_Witness ==
    /\ response.op = "user_rating" /\ response.status = 200
    /\ response.body.score = 20
    /\ \E x \in ratings : /\ x.user = 2 /\ x.content_type = "university" /\ x.object_id = 1
                          /\ x.score = 2 /\ x.updated_at > x.created_at

\* the target a rate_api request names is a row of a registered type
TargetExists == /\ request.target_type \in TargetTypes
                /\ request.target_id \in entities[request.target_type]

\* C18: a rate_api request whose target_type is not one of the six
\* registered types, or whose target_id names no row of that type, is
\* answered with an error and writes no Rating row; sent by a student with a
\* valid score the error is 400 for the type and 404 for the id; every
\* Rating row is written for a target that exists when the request is handled.
C18_RateNeedsExistingTarget ==
    /\ [](\A x \in ratings : /\ x.content_type \in TargetTypes
                             /\ x.object_id \in entities[x.content_type])
    /\ [][
          /\ (request.op = "rate" /\ request.json /\ ~TargetExists)
                => (response'.status >= 400 /\ ratings' = ratings)
          /\ (request.op = "rate" /\ WellFormedRate /\ Requester # None
              /\ Requester \in DOMAIN profiles /\ profiles[Requester] = "student")
                => (/\ (request.target_type \notin TargetTypes) => (response'.status = 400)
                    /\ (request.target_type \in TargetTypes /\ ~TargetExists)
                          => (response'.status = 404))
          /\ (ratings' # ratings) => (request.op = "rate" /\ TargetExists)
       ]_vars

\* a student who has a rating stored was answered 404 for University 2
C18_Witness ==
    /\ response.op = "rate" /\ response.status = 404
    /\ \E x \in ratings : x.user = 2

\* the target-id fields an add_comment_api request sets
FieldsSet == {t \in TargetTypes : request.target_ids[t] # None}

\* s has a character that is not a space
NonBlank(s) == \E i \in 1..Len(s) : s[i] # " "

\* the request has content and its parent, when given, is stored
ContentAndParentOk ==
    /\ request.json /\ NonBlank(request.content)
    /\ (request.parent_id = None \/ \E c \in comments : c.id = request.parent_id)

\* C19: every stored comment is attached to an entity that exists; an
\* add_comment_api request (with content and a valid or no parent) that
\* sets no target field gets 400, one whose only set field names no row of
\* its model gets 404, and both store nothing; a comment is stored only for
\* a field of the request that names an existing row; resolving the target
\* changes no entity.
C19_CommentNeedsExistingTarget ==
    /\ [](\A c \in comments : \E t \in TargetTypes : c[t] # None /\ c[t] \in entities[t])
    /\ [][request.op = "add_comment"
          => /\ entities' = entities
             /\ (ContentAndParentOk /\ FieldsSet = {})
                   => (/\ response'.status = 400
                       /\ response'.error = "No valid target object specified"
                       /\ comments' = comments /\ nextCommentId' = nextCommentId)
             /\ (ContentAndParentOk /\ \E t \in TargetTypes :
                                          /\ FieldsSet = {t}
                                          /\ request.target_ids[t] \notin entities[t])
                   => (/\ response'.status = 404
                       /\ comments' = comments /\ nextCommentId' = nextCommentId)
             /\ \A c \in comments' \ comments :
                   \E t \in FieldsSet : /\ c[t] = request.target_ids[t]
                                        /\ c[t] \in entities[t]]_vars

\* with a comment stored on Lecturer 1, a request that named a missing row
\* was answered 404
C19_Witness ==
    /\ response.op = "add_comment" /\ response.status = 404
    /\ \E c \in comments : c.lecturer = 1
    /\ Cardinality(comments) = 1

\* C20: an add_comment_api request whose content is blank gets 400, one with
\* content whose parent_id names no stored comment gets 404, and both leave
\* the Comment table as it was; every stored comment has content that is not
\* blank and carries no blank at either end.
C20_InvalidCommentNotStored ==
    /\ [](\A c \in comments : /\ NonBlank(c.content)
                              /\ c.content[1] # " " /\ c.content[Len(c.content)] # " ")
    /\ [][(request.op = "add_comment" /\ request.json)
          => /\ (~NonBlank(request.content))
                   => (/\ response'.status = 400 /\ response'.error = "Content is required"
                       /\ comments' = comments /\ nextCommentId' = nextCommentId)
             /\ (/\ NonBlank(request.content) /\ request.parent_id # None
                 /\ ~\E c \in comments : c.id = request.parent_id)
                   => (/\ response'.status = 404
                       /\ comments' = comments /\ nextCommentId' = nextCommentId)]_vars

\* with two comments stored, a reply to a comment that is not there was
\* answered 404
C20_Witness ==
    /\ response.op = "add_comment" /\ response.status = 404
    /\ Cardinality(comments) = 2

\* the entries of a serialized list are the comments with the ids in `ids`,
\* each once
ListsExactly(list, ids) ==
    /\ {list[i].id : i \in 1..Len(list)} = ids
    /\ Len(list) = Cardinality(ids)

\* the stored creation time of the comment a serialized entry stands for
CreatedAt(n) == (CHOOSE c \in comments : c.id = n.id).created_at

\* C21: the detail view of a university lists exactly the stored comments of
\* that university that have no parent, newest first; under every comment,
\* at every depth, it lists exactly the stored comments whose parent it is,
\* oldest first.
C21_ThreadOrder ==
    [][(request.op = "university_detail" /\ response'.status = 200)
       => LET top == response'.body.comments
          IN /\ ListsExactly(top, {c.id : c \in {x \in comments :
                                      x.university = request.university_id /\ x.parent = None}})
             /\ \A i, j \in 1..Len(top) : (i < j) => (CreatedAt(top[i]) > CreatedAt(top[j]))
             /\ \A n \in Nodes(top) :
                   /\ ListsExactly(n.replies, {c.id : c \in {x \in comments : x.parent = n.id}})
                   /\ \A i, j \in 1..Len(n.replies) :
                         (i < j) => (CreatedAt(n.replies[i]) < CreatedAt(n.replies[j]))]_vars

\* the view answered two top-level comments, the newer one first, the older
\* one carrying a reply
C21_Witness ==
    /\ response.op = "university_detail" /\ response.status = 200
    /\ Len(response.body.comments) = 2
    /\ response.body.comments[1].id = 2 /\ response.body.comments[2].id = 1
    /\ Len(response.body.comments[2].replies) = 1

\* C25: a register request whose trimmed username is already taken creates
\* neither a user nor a profile, and answers 409 when the rest of the request
\* is valid; a request that does create appends exactly one user together
\* with its profile, whose role is student or lecturer; no two users ever
\* share a username, and every user added by registration has a profile.
SeededUsers == {1, 2, 3}

ValidRegistration(r) ==
    /\ r.json
    /\ RoleOfText(Lower(Strip(r.role))) \in Roles
    /\ Strip(r.username) # <<>>
    /\ Strip(r.password) # <<>>

C25_DuplicateUsernameConflict ==
    /\ [](\A u, v \in UserIds : (users[u].username = users[v].username) => (u = v))
    /\ [](\A u \in UserIds \ SeededUsers : u \in DOMAIN profiles /\ profiles[u] \in Roles)
    /\ [][(request.op = "register")
          => /\ UsernameTaken(Strip(request.username))
                   => /\ users' = users
                      /\ profiles' = profiles
                      /\ ValidRegistration(request) => (response'.status = 409)
             /\ (users' # users)
                   => /\ users' = Append(users, users'[Len(users')])
                      /\ DOMAIN profiles' = DOMAIN profiles \cup {Len(users')}
                      /\ profiles'[Len(users')] \in Roles
                      /\ \A u \in DOMAIN profiles : profiles'[u] = profiles[u]]_vars

C25_Witness ==
    /\ response.op = "register"
    /\ response.status = 409
    /\ Len(users) = 4
    /\ users[4].username = <<"d">>
    /\ 4 \in DOMAIN profiles

\* number of entries of serialized threads, replies at every depth included
RECURSIVE NodeCount(_)
NodeCount(threads) ==
    IF threads = <<>> THEN 0
    ELSE 1 + NodeCount(Head(threads).replies) + NodeCount(Tail(threads))

\* ids of the stored comments under the top-level comments of university id
ThreadMembers(id) ==
    {c.id : c \in {x \in comments :
                     \E r \in comments : /\ r.university = id
                                         /\ r.parent = None
                                         /\ ReachesUp(comments, x.id, r.id)}}

\* C28: after any sequence of add-comment and delete-comment requests every
\* reply's parent is a stored comment created before it, no comment is its
\* own ancestor, every comment reaches a comment without parent by
\* following parent links, and the serialized threads of a university hold
\* each comment under its top-level comments exactly once.
C28_ParentForest ==
    /\ \A c \in comments :
          /\ (c.parent # None)
                => /\ \E p \in comments : p.id = c.parent /\ p.created_at < c.created_at
                   /\ ~ReachesUp(comments, c.parent, c.id)
          /\ \E r \in comments : r.parent = None /\ ReachesUp(comments, c.id, r.id)
    /\ LET threads == UniversityThreads(comments, 1)
       IN /\ {n.id : n \in Nodes(threads)} = ThreadMembers(1)
          /\ NodeCount(threads) = Cardinality(ThreadMembers(1))

\* a delete succeeded and a reply is still stored under its parent
C28_Witness ==
    /\ response.op = "delete_comment" /\ response.status = 200
    /\ \E c \in comments : c.parent # None

Kth(v, k) ==
    CHOOSE x \in {v[i] : i \in 1..Len(v)} :
        /\ Cardinality({i \in 1..Len(v) : v[i] < x}) < k
        /\ Cardinality({i \in 1..Len(v) : v[i] <= x}) >= k

\* in halves, the median of the h elements of rank lo + 1 .. lo + h
MedianOfRanks(v, lo, h) ==
    IF h = 0 THEN Null
    ELSE IF h % 2 = 1 THEN 2 * Kth(v, lo + ((h + 1) \div 2))
    ELSE Kth(v, lo + (h \div 2)) + Kth(v, lo + (h \div 2) + 1)

\* C22: for a non-empty sample compute_quartiles returns its least and
\* greatest element, the median of the sorted sample, and as Q1 and Q3 the
\* medians of its first and last n div 2 sorted elements; the sample
\* 1, 2, 3, 4 in any order gives 1, 1.5, 2.5, 3.5, 4.
C22_QuartilesByHalves ==
    [][(request.op = "compute_quartiles" /\ request.values # <<>>)
       => LET v == request.values
              n == Len(v)
              q == response'.body
          IN /\ q.min = 2 * Kth(v, 1)
             /\ q.max = 2 * Kth(v, n)
             /\ q.median = MedianOfRanks(v, 0, n)
             /\ q.q1 = MedianOfRanks(v, 0, n \div 2)
             /\ q.q3 = MedianOfRanks(v, n - (n \div 2), n \div 2)
             /\ ({v[i] : i \in 1..n} = {1, 2, 3, 4} /\ n = 4)
                   => q = [min |-> 2, q1 |-> 3, median |-> 5, q3 |-> 7, max |-> 8]]_vars

\* the sample 4, 2, 1, 3 was summarised as 1, 1.5, 2.5, 3.5, 4
C22_Witness ==
    /\ response.op = "compute_quartiles"
    /\ response.body = [min |-> 2, q1 |-> 3, median |-> 5, q3 |-> 7, max |-> 8]

\* C30: for a sample of one score s compute_quartiles returns s as min,
\* median and max, and null as Q1 and Q3; for a sample of two or more scores
\* the five values are non-null and min <= Q1 <= median <= Q3 <= max.
C30_SingleScoreHasNoQuartiles ==
    [][(request.op = "compute_quartiles")
       => LET v == request.values
              q == response'.body
          IN /\ (Len(v) = 1)
                   => /\ q.min = 2 * v[1] /\ q.median = 2 * v[1] /\ q.max = 2 * v[1]
                      /\ q.q1 = Null /\ q.q3 = Null
             /\ (Len(v) >= 2)
                   => /\ Null \notin {q.min, q.q1, q.median, q.q3, q.max}
                      /\ q.min <= q.q1 /\ q.q1 <= q.median
                      /\ q.median <= q.q3 /\ q.q3 <= q.max]_vars

\* the single score 3 was summarised
C30_Witness ==
    /\ response.op = "compute_quartiles"
    /\ response.body = [min |-> 6, q1 |-> Null, median |-> 6, q3 |-> Null, max |-> 6]

\* the table an add request writes
TableOf(op) ==
    CASE op = "add_university" -> "university"
      [] op = "add_college" -> "college"
      [] op = "add_school" -> "school"
      [] op = "add_module" -> "module"
      [] op = "add_lecturer" -> "lecturer"
      [] op = "add_teaching" -> "teaching"

AddOps == {"add_university", "add_college", "add_school", "add_module", "add_lecturer",
           "add_teaching"}

\* the id of the region a name designates, None when there is none
RegionNamed(name) ==
    IF \E g \in Regions : Lower(g.name) = Lower(Strip(name))
    THEN (CHOOSE g \in Regions : Lower(g.name) = Lower(Strip(name))).id
    ELSE None

\* the record a request asks to create: trimmed name and scope
Requested(r) ==
    CASE r.op = "add_university" -> EntityRow(None, Strip(r.name), RegionNamed(r.region), None, NoYear)
      [] r.op = "add_college" -> EntityRow(None, Strip(r.name), r.university_id, None, NoYear)
      [] r.op = "add_school" -> EntityRow(None, Strip(r.name), r.college_id, None, NoYear)
      [] r.op = "add_module" -> EntityRow(None, Strip(r.name), r.school_id, None, NoYear)
      [] r.op = "add_lecturer" -> EntityRow(None, Strip(r.name), None, None, NoYear)
      [] r.op = "add_teaching" -> EntityRow(None, <<>>, r.lecturer_id, r.module_id, r.year)

\* two records of one table collide: same scope and names equal ignoring
\* case; for teachings, the same lecturer, module and year
Collide(x, y) ==
    /\ x.parent = y.parent
    /\ x.module = y.module
    /\ x.year = y.year
    /\ Lower(x.name) = Lower(y.name)

\* C26: an add request for a record that collides with a stored record of
\* its table is answered 409 with a stored record it collides with and
\* leaves every table unchanged; no add request changes or removes a stored
\* record; no table ever holds two distinct records that collide.
C26_DuplicateIsConflict ==
    /\ [](\A t \in TargetTypes : \A x, y \in catalog[t] : Collide(x, y) => (x = y))
    /\ [][(request.op \in AddOps)
          => LET t == TableOf(request.op)
                 dups == {x \in catalog[t] : Collide(x, Requested(request))}
             IN /\ \A u \in TargetTypes : catalog[u] \subseteq catalog'[u]
                /\ (dups # {})
                      => /\ response'.status = 409
                         /\ response'.body.existing.id \in {x.id : x \in dups}
                         /\ catalog' = catalog
                         /\ entities' = entities]_vars

\* a second college of the same name under another university was created,
\* and asking for it again was answered with that record
C26_Witness ==
    /\ response.op = "add_college"
    /\ response.status = 409
    /\ response.body.existing.id = 2
    /\ \E x, y \in catalog["college"] :
          /\ x.id = 1 /\ y.id = 2
          /\ Lower(x.name) = Lower(y.name)
          /\ x.parent # y.parent

QuartileFields == {"min", "q1", "median", "q3", "max"}

\* the lecturer's teachings that pass the filters of a trend request
Matching(r) ==
    {t \in catalog["teaching"] :
        /\ t.parent = r.lecturer_id
        /\ LET m == CHOOSE x \in catalog["module"] : x.id = t.module
               s == CHOOSE x \in catalog["school"] : x.id = m.parent
               c == CHOOSE x \in catalog["college"] : x.id = s.parent
           IN CASE r.school_id # None -> s.id = r.school_id
                [] r.school_id = None /\ r.college_id # None -> c.id = r.college_id
                [] r.school_id = None /\ r.college_id = None /\ r.university_id # None ->
                       c.parent = r.university_id
                [] OTHER -> TRUE
        /\ (r.year_filter # NoYear) => (t.year = r.year_filter)}

\* no rating is stored on a matching teaching of year y
Unrated(r, y) ==
    \A t \in Matching(r) :
        (t.year = y) => ~\E x \in ratings : x.content_type = "teaching" /\ x.object_id = t.id

\* C23: the trend of a lecturer reports the years of the matching teachings
\* once each in ascending order of the year strings; the mean series, every
\* quartile series and every per-course series has one entry per reported
\* year; at a year in which no matching teaching has a rating, every one of
\* them is null, not zero.
C23_UnratedYearsAreNull ==
    [][(request.op = "rating_trend" /\ response'.status = 200)
       => LET b == response'.body
              n == Len(b.years)
          IN /\ {b.years[i] : i \in 1..n} = {t.year : t \in Matching(request)}
             /\ \A i, j \in 1..n : (i < j) => StrLess(b.years[i], b.years[j])
             /\ Len(b.overall) = n
             /\ \A f \in QuartileFields : Len(b.overall_quartiles[f]) = n
             /\ DOMAIN b.courses = DOMAIN b.courses_quartiles
             /\ \A name \in DOMAIN b.courses :
                   /\ Len(b.courses[name]) = n
                   /\ \A f \in QuartileFields : Len(b.courses_quartiles[name][f]) = n
             /\ \A i \in 1..n :
                   Unrated(request, b.years[i])
                      => /\ b.overall[i] = Null
                         /\ \A f \in QuartileFields : b.overall_quartiles[f][i] = Null
                         /\ \A name \in DOMAIN b.courses :
                               /\ b.courses[name][i] = Null
                               /\ \A f \in QuartileFields :
                                     b.courses_quartiles[name][f][i] = Null]_vars

\* the trend reported a year with two ratings and a year with none
C23_Witness ==
    /\ response.op = "rating_trend" /\ response.status = 200
    /\ response.body.years = << <<"1", "0">>, <<"9">> >>
    /\ response.body.overall_quartiles["q1"] = <<2, Null>>
    /\ response.body.overall = <<250, Null>>
    /\ DOMAIN response.body.courses = {<<"l">>, <<"x">>}

\* a POST of an authenticated user that names an entity type, id and name
ValidVisit(r) ==
    /\ r.method = "POST"
    /\ r.json
    /\ Requester # None
    /\ r.entityType # "" /\ r.entityId # None /\ r.entityName # <<>>

\* C24: a valid POST by a user for an entity for which that user has a
\* record at most 5 minutes old appends nothing and answers with such a
\* record; any other valid POST appends exactly one record, for that user
\* and entity, stamped with the current time; no request to the endpoint
\* changes or removes a stored record, and no other request appends one.
C24_VisitDedupWindow ==
    [][(request.op = "visit_history" /\ response'.op = "visit_history")
       => /\ visits \subseteq visits'
          /\ ~ValidVisit(request) => (visits' = visits)
          /\ ValidVisit(request)
                => LET old == {v \in visits : /\ v.user = Requester
                                              /\ v.entity_type = request.entityType
                                              /\ v.entity_id = request.entityId
                                              /\ now - v.timestamp <= 5}
                   IN IF old # {}
                      THEN /\ visits' = visits
                           /\ response'.status = 200
                           /\ response'.body.id \in {v.id : v \in old}
                      ELSE /\ Cardinality(visits' \ visits) = 1
                           /\ \A v \in visits' \ visits :
                                 /\ v.user = Requester
                                 /\ v.entity_type = request.entityType
                                 /\ v.entity_id = request.entityId
                                 /\ v.timestamp = now
                                 /\ v.id \notin {w.id : w \in visits}
                                 /\ response'.body.id = v.id]_vars

\* a visit repeated exactly 5 minutes after the first was answered with the
\* first record while another user's visit of the same entity was recorded
C24_Witness ==
    /\ response.op = "visit_history" /\ response.status = 200
    /\ "duplicate" \in DOMAIN response.body
    /\ response.body.duplicate
    /\ response.body.id = 1
    /\ now = 5
    /\ \E v, w \in visits :
          /\ v.id = 1 /\ v.timestamp = 0
          /\ w.id = 2 /\ w.user # v.user
          /\ w.entity_type = v.entity_type /\ w.entity_id = v.entity_id

\* C27: whatever the interleaving of the statements of add_comment_api with
\* those of a delete of its target or of its parent comment, every stored
\* comment that has a parent has it stored, and the target of every stored
\* comment is stored.
C27_NoOrphanedComment ==
    \A c \in comments :
        /\ (c.parent # None) => (\E q \in comments : q.id = c.parent)
        /\ \A t \in TargetTypes : (c[t] # None) => (c[t] \in entities[t])

\* the target was deleted between the lookups of add_comment_api and its
\* INSERT, which then failed
C27_Witness ==
    /\ procs # <<>>
    /\ procs[Commenter].pc = "done"
    /\ procs[Commenter].resp = Unhandled("add_comment", "IntegrityError")
    /\ procs[Commenter].req.parent_id = None
    /\ procs[Remover].pc = "done"
    /\ procs[Remover].resp.op = "delete_target"
    /\ procs[Remover].resp.status = 200

====
